---- MODULE Spec2Model ----
(***************************************************************************)
(* Point-cloud component filter (src/src/connected_components.py) and      *)
(* top-down density rasterizer (src/src/generate_density_image.py).        *)
(*                                                                         *)
(* Points live on an integer lattice line: the filter only reads           *)
(* Euclidean distances between points and between points and scan origins, *)
(* so a position is one integer coordinate and a distance an absolute      *)
(* difference.  Arrays keep the source's 0-based indices: an array of n    *)
(* entries is a function on 0..n-1.  Edge lists are sequences of           *)
(* <<i, j, weight>> triplets.                                              *)
(***************************************************************************)
EXTENDS Integers, Sequences, FiniteSets, TLC

(* ------------------------------ bounds -------------------------------- *)
MaxPoints == 4
MaxOrigins == 1
MaxTripletPoints == 5

Coords == {0, 1}
Radii == {1, 2}
IncludeRadii == {1, 2}
MaxNNs == {3}
TripletNNs == {0, 1, 2}
NearbyCounts == {0, 1, 3}

\* Rasterizer inputs: families of clouds and resolutions (fractions
\* <<num, den>>): small images; a 200-unit cloud at resolution 100, whose
\* 20000 pixels exceed the cap; a long thin cloud whose scaled width is not
\* an integer; a cloud lying above the x axis.
MaxRasterPoints == 2
BigRun == 65536
RasterFamilies ==
    {[xs |-> {-1, 0, 2}, ys |-> {-1, 0, 2}, rs |-> {<<1, 1>>, <<10, 1>>, <<3, 2>>}],
     [xs |-> {0, 200}, ys |-> {0, 100, 200}, rs |-> {<<100, 1>>}],
     [xs |-> {0, 1, 4}, ys |-> {0, 10001}, rs |-> {<<1, 1>>}],
     [xs |-> {0, 1}, ys |-> {1, 3}, rs |-> {<<1, 1>>, <<3, 1>>}]}

(* --------------------------- program constants ------------------------ *)
Infinity == 1000000
MinClusterPoints == 3
NoiseLabel == -1
ResizeMargin == 100
MaxDimension == 10000
CounterModulus == 65536
FewPointsLimit == 1000
ContrastFactor == 4
NanPixel == -2147483647 - 1

VARIABLES
    pc,                      \* position in filter_by_connected_components
    cloud,                   \* point_cloud.points, index -> position
    scan_origins,            \* sequence of scan origin positions
    radius, max_nn, max_num_nearby_points, always_include_radius,
    min_distances,           \* index -> distance to the nearest scan origin
    always_included_indices, \* indices with min_distances < always_include_radius
    sorted_point_indices,    \* argsort of min_distances (graph strategy)
    labels,                  \* cluster_dbscan labels (density strategy)
    loop_i,                  \* find_triplets: the point the loop is at
    triplets_i, triplets_j,  \* find_triplets: the two edge buffers
    current_idx, last_resize,
    filtered_triplets,       \* find_triplets' return value
    all_triplets,            \* the combined edge list
    components,              \* connected_components labels (graph strategy)
    main_component_mask,     \* index -> kept?
    filtered_cloud,          \* the returned cloud
    dbscan_ran, dbscan_failed, graph_ran,
    graph_cloud, graph_origins, \* the arguments filter_using_graph received
    returned_by,             \* "none" | "dbscan" | "graph"
    exception,               \* "none" | the exception that left the filter
    colors, normals,         \* point_cloud.colors / .normals, index -> value;
                             \* <<>> when the cloud has none
    filtered_colors, filtered_normals, \* those of the returned cloud
    r_pc,                    \* position in create_density_image
    r_cloud,                 \* processed_cloud.points as runs [x, y, n]: n
                             \* consecutive points at (x, y)
    flip_y,
    resolution_arg,          \* the resolution argument as passed in
    resolution,              \* the resolution in use, a fraction <<num, den>>
    width, height,
    projection_matrix,       \* its entries [0][0], [0][3], [1][1], [1][3]
    pixel_xy,                \* per run the pair <<pixel_x, pixel_y>>
    valid_mask,              \* per run: inside the image ?
    valid_pixels,            \* pixel_x/pixel_y after masking, as runs
    acc_run, acc_in_run,     \* the accumulation loop: run, points done in it
    density_image,           \* pixel -> count, for the pixels points hit;
                             \* every other pixel of the image holds 0
    warnings,                \* the warnings create_density_image printed
    max_val,                 \* np.max(density_image)
    normalized,              \* the normalized image as 8-bit values:
                             \* [hit: pixel -> value, rest: the value of
                             \* every pixel no point hit]
    enhanced_image,          \* the same, after enhance_image
    proj_params,             \* the params dictionary returned
    x_pc,                    \* position in the comparison of the two
                             \* pixel-index computations
    uv_value,                \* a normalized coordinate, a fraction <<num, den>>
    dimension,               \* the image dimension it is scaled to
    density_pixel,           \* the index create_density_image computes
    annotation_pixel,        \* the index project_point computes
    o_pc,                    \* position in draw_scene_outlines
    annotations,             \* the annotations file: [layout, scenes]
    o_params,                \* the projection_params argument
    o_image,                 \* the image drawn on: [mode, marks, object],
                             \* marks the set of <<scene, layer, hue>> painted
                             \* so far, object the image object it is
    o_width, o_height, o_matrix, \* width, height, projection_matrix as read
                             \* from projection_params
    o_scene,                 \* the scene the loop is at
    o_error,                 \* the exception the except clause printed
    scene_colors,            \* per scene the hue its colour is made from, a
                             \* fraction <<num, den>> of the hue circle
    g_pc,                    \* position in generate_from_ply
    input_exists,            \* os.path.exists(input_file)
    annotations_file,        \* "none" | "missing" | "present"
    crop_bounds,             \* <<>> for None, else <<min_x, max_x, min_y, max_y>>
    use_connected_components, remove_outliers,
    file_cloud,              \* the points stored in the input file, as runs
    point_cloud,             \* the local point_cloud, as runs
    stage_log,               \* the stages executed, in order
    files_written,           \* the images saved, in order: [path, mode, marks]
    g_result,                \* the returned path, "none" before the return
    g_exception              \* the exception that left generate_from_ply

vars == <<pc, cloud, scan_origins, radius, max_nn, max_num_nearby_points,
          always_include_radius, min_distances, always_included_indices,
          sorted_point_indices, labels, loop_i, triplets_i, triplets_j,
          current_idx, last_resize, filtered_triplets, all_triplets,
          components, main_component_mask, filtered_cloud, dbscan_ran,
          dbscan_failed, graph_ran, graph_cloud, graph_origins, returned_by,
          exception, colors, normals, filtered_colors, filtered_normals, r_pc, r_cloud, flip_y, resolution_arg, resolution, width, height,
          projection_matrix, pixel_xy, valid_mask, valid_pixels, acc_run,
          acc_in_run, density_image, warnings, max_val, normalized,
          enhanced_image, proj_params, x_pc, uv_value, dimension, density_pixel,
          annotation_pixel, o_pc, annotations, o_params, o_image, o_width,
          o_height, o_matrix, o_scene, o_error, scene_colors, g_pc, input_exists,
          annotations_file, crop_bounds, use_connected_components,
          remove_outliers, file_cloud, point_cloud, stage_log, files_written,
          g_result, g_exception>>

pixelVars == <<x_pc, uv_value, dimension, density_pixel, annotation_pixel>>

overlayVars == <<o_pc, annotations, o_params, o_image, o_width, o_height,
                 o_matrix, o_scene, o_error, scene_colors>>

runVars == <<g_pc, input_exists, annotations_file, crop_bounds,
             use_connected_components, remove_outliers, file_cloud,
             point_cloud, stage_log, files_written, g_result, g_exception>>

rasterVars == <<r_pc, r_cloud, flip_y, resolution_arg, resolution, width, height,
                projection_matrix, pixel_xy, valid_mask, valid_pixels, acc_run,
                acc_in_run, density_image, warnings, max_val, normalized,
                enhanced_image, proj_params>>

\* What normalization and the return produce.
normVars == <<max_val, normalized, enhanced_image, proj_params>>

filterVars == <<pc, cloud, scan_origins, radius, max_nn, max_num_nearby_points,
                always_include_radius, min_distances, always_included_indices,
                sorted_point_indices, labels, loop_i, triplets_i, triplets_j,
                current_idx, last_resize, filtered_triplets, all_triplets,
                components, main_component_mask, filtered_cloud, dbscan_ran,
                dbscan_failed, graph_ran, graph_cloud, graph_origins,
                returned_by, exception, colors, normals, filtered_colors,
                filtered_normals>>

\* The attributes of the returned cloud.
attrOut == <<filtered_colors, filtered_normals>>

\* What the component filter and the rasterizer leave alone.
outsideFilter == <<rasterVars, pixelVars, overlayVars, runVars>>

outsideRaster == <<filterVars, pixelVars, overlayVars, runVars>>

inputs == <<cloud, scan_origins, radius, max_nn, max_num_nearby_points,
            always_include_radius, colors, normals>>

(* ------------------------------ helpers ------------------------------- *)
Abs(x) == IF x < 0 THEN -x ELSE x

Min2(a, b) == IF a < b THEN a ELSE b

SetMin(S) == CHOOSE m \in S : \A x \in S : m <= x

NumPoints(points) == Cardinality(DOMAIN points)

Range(s) == {s[k] : k \in DOMAIN s}

\* np.linalg.norm(points - origin_array, axis=1), for one point
Distance(p, q) == Abs(p - q)

RECURSIVE MinOverOrigins(_, _, _)
MinOverOrigins(p, origins, acc) ==
    IF origins = <<>> THEN acc
    ELSE MinOverOrigins(p, Tail(origins), Min2(acc, Distance(p, Head(origins))))

\* min_distances: starts at inf, np.minimum with the distances to each origin
MinDistances(points, origins) ==
    [k \in DOMAIN points |-> MinOverOrigins(points[k], origins, Infinity)]

\* np.where(min_distances < always_include_radius)[0]
AlwaysIncludedIndices(md, air) == {k \in DOMAIN md : md[k] < air}

\* The index set a radius search around point i returns (the point itself
\* included; a neighbour lies strictly inside the radius).
SearchRadius(points, i, r) ==
    {j \in DOMAIN points : Distance(points[i], points[j]) < r}

\* The orderings of the finite set S by ascending key, as sequences; members
\* with equal keys come in any order.
RECURSIVE SortedOrders(_, _)
SortedOrders(S, key) ==
    IF S = {} THEN {<<>>}
    ELSE UNION {{<<x>> \o rest : rest \in SortedOrders(S \ {x}, key)} :
                   x \in {y \in S : \A z \in S : key[y] <= key[z]}}

\* The first n entries of the orderings of S by ascending key.
RECURSIVE SortedPrefixes(_, _, _)
SortedPrefixes(S, key, n) ==
    IF S = {} \/ n <= 0 THEN {<<>>}
    ELSE UNION {{<<x>> \o rest : rest \in SortedPrefixes(S \ {x}, key, n - 1)} :
                   x \in {y \in S : \A z \in S : key[y] <= key[z]}}

\* np.argsort(min_distances): ascending, equal keys in any order (the
\* default sort kind is not stable).
ArgSorts(md) ==
    {[k \in DOMAIN md |-> s[k + 1]] : s \in SortedOrders(DOMAIN md, md)}

\* The set of nodes reachable from the nodes of S along Adj (S included).
RECURSIVE Closure(_, _)
Closure(S, Adj) ==
    LET T == S \cup {b \in DOMAIN Adj : \E a \in S : b \in Adj[a]}
    IN  IF T = S THEN S ELSE Closure(T, Adj)

\* points[mask] : the kept points, in input order.
RECURSIVE MaskedFrom(_, _, _)
MaskedFrom(points, mask, k) ==
    IF k \notin DOMAIN points THEN <<>>
    ELSE (IF mask[k] THEN <<points[k]>> ELSE <<>>) \o MaskedFrom(points, mask, k + 1)

ApplyMask(points, mask) == MaskedFrom(points, mask, 0)

\* The attribute array copied whole.
MaskedAttributeUnfiltered(values, mask) == values

\* if point_cloud.has_colors(): ... np.asarray(point_cloud.colors)[mask]
\* (the same for normals): copied under the mask when the cloud has them.
MaskedAttribute(values, mask) ==
    IF values = <<>> THEN <<>> ELSE ApplyMask(values, mask)

(* ------------------- density-clustering strategy ---------------------- *)
\* point_cloud.cluster_dbscan(eps, min_points): a point is a core point when
\* its eps-neighbourhood (itself included) holds min_points points; clusters
\* are the eps-connected sets of core points, numbered 0.. in the order of
\* their lowest core index; a non-core point next to a core point joins the
\* first such cluster that reaches it; every other point is noise (-1).
ClusterDbscan(points, eps, min_points) ==
    LET N == DOMAIN points
        Core == {i \in N : Cardinality(SearchRadius(points, i, eps)) >= min_points}
        CoreAdj == [i \in N |-> IF i \in Core THEN SearchRadius(points, i, eps) \cap Core ELSE {}]
        Seed(i) == SetMin(Closure({i}, CoreAdj))
        Seeds == {Seed(i) : i \in Core}
        ClusterOf(i) == Cardinality({s \in Seeds : s < Seed(i)})
        CoreNbrs(i) == SearchRadius(points, i, eps) \cap Core
    IN  [i \in N |->
            IF i \in Core THEN ClusterOf(i)
            ELSE IF CoreNbrs(i) # {} THEN SetMin({ClusterOf(c) : c \in CoreNbrs(i)})
            ELSE NoiseLabel]

\* valid_clusters: np.unique(labels[always_included_indices]) without noise
ValidClusters(lab, included) == {lab[k] : k \in included} \ {NoiseLabel}

DbscanMaskNoFallback(lab, md, included, air) ==
    [k \in DOMAIN lab |-> lab[k] \in ValidClusters(lab, included)]

DbscanMaskKeepNoise(lab, md, included, air) ==
    [k \in DOMAIN lab |-> lab[k] \in {lab[m] : m \in included}]

\* The mask with the whole cloud kept when no cluster is valid.
DbscanMaskFallbackKeepsAll(lab, md, included, air) ==
    IF ValidClusters(lab, included) # {}
    THEN [k \in DOMAIN lab |-> lab[k] \in ValidClusters(lab, included)]
    ELSE [k \in DOMAIN lab |-> TRUE]

\* main_component_mask of filter_using_dbscan
DbscanMask(lab, md, included, air) ==
    IF ValidClusters(lab, included) # {}
    THEN [k \in DOMAIN lab |-> lab[k] \in ValidClusters(lab, included)]
    ELSE [k \in DOMAIN lab |-> md[k] < air]

(* -------------------- graph-connectivity strategy --------------------- *)
\* estimated_capacity = int(num_points * max_nn * 0.2)
EstimatedCapacity(n, nn) == (n * nn * 2) \div 10

\* The number of writes after which `for j in idx` breaks: neighbor_count is
\* compared with max_nn after each write, so the first write always happens.
WritesBeforeBreak(nn) == IF nn < 1 THEN 1 ELSE nn

TripletTargetsNoCap(points, i, r, nn) ==
    SortedPrefixes({j \in SearchRadius(points, i, r) : j > i},
                   [j \in DOMAIN points |-> Distance(points[i], points[j])],
                   NumPoints(points))

\* The inner loop breaking after its first write, whatever max_nn is.
TripletTargetsNearestOnly(points, i, r, nn) ==
    SortedPrefixes({j \in SearchRadius(points, i, r) : j > i},
                   [j \in DOMAIN points |-> Distance(points[i], points[j])],
                   1)

\* The lists of second endpoints the inner loop can write at point i.  The
\* search returns idx nearest first (equal distances in any order); the loop
\* keeps the entries j > i in that order and breaks after max_nn of them,
\* so it writes a nearest-first prefix of the higher-indexed neighbours.
TripletTargets(points, i, r, nn) ==
    SortedPrefixes({j \in SearchRadius(points, i, r) : j > i},
                   [j \in DOMAIN points |-> Distance(points[i], points[j])],
                   WritesBeforeBreak(nn))

\* np.column_stack((triplets_i[:n], triplets_j[:n], np.ones(n)))
ColumnStack(ti, tj, n) == [k \in 1..n |-> <<ti[k - 1], tj[k - 1], 1>>]

\* One anchor-clique entry for the pair at sorted positions (a, b), a < b.
NearbyTriplet(sorted, a, b) ==
    IF sorted[a] > sorted[b] THEN <<sorted[a], sorted[b], 1>>
    ELSE <<sorted[b], sorted[a], 1>>

\* nearby_point_triplet_list: index ascending, pair_index ascending
RECURSIVE NearbyFrom(_, _, _, _)
NearbyFrom(sorted, num, a, b) ==
    IF a >= num THEN <<>>
    ELSE IF b >= num THEN NearbyFrom(sorted, num, a + 1, a + 2)
    ELSE <<NearbyTriplet(sorted, a, b)>> \o NearbyFrom(sorted, num, a, b + 1)

NumNearbyPoints(maxNearby, n) == Min2(maxNearby, n)

NearbyChainOnly(sorted, num) ==
    IF num >= 3 THEN NearbyFrom(sorted, num - 1, 0, 1) ELSE NearbyFrom(sorted, num, 0, 1)

NearbyPointTriplets(sorted, num) == NearbyFrom(sorted, num, 0, 1)

\* Components found by following every edge from its first endpoint to
\* its second only.
ComponentsAlongEdges(n, edges) ==
    LET N == 0..(n - 1)
        Adj == [a \in N |-> {b \in N : \E e \in Range(edges) : e[1] = a /\ e[2] = b}]
        Root(a) == SetMin(Closure({a}, Adj))
        Roots == {Root(a) : a \in N}
    IN  [a \in N |-> Cardinality({r \in Roots : r < Root(a)})]

\* scipy.sparse.csgraph.connected_components(graph, directed=False): labels
\* 0..k-1, components numbered in the order of their lowest node.
ConnectedComponents(n, edges) ==
    LET N == 0..(n - 1)
        Adj == [a \in N |-> {b \in N : \E e \in Range(edges) :
                                  (e[1] = a /\ e[2] = b) \/ (e[1] = b /\ e[2] = a)}]
        Root(a) == SetMin(Closure({a}, Adj))
        Roots == {Root(a) : a \in N}
    IN  [a \in N |-> Cardinality({r \in Roots : r < Root(a)})]

\* always_included_components then np.isin(components, ...)
GraphMask(comp, included) ==
    [k \in DOMAIN comp |-> comp[k] \in {comp[m] : m \in included}]

(* ------------------------------- Init --------------------------------- *)
\* No pixel-index comparison under way.
PixelIdle ==
    /\ x_pc = "idle"
    /\ uv_value = <<0, 1>>
    /\ dimension = 1
    /\ density_pixel = 0
    /\ annotation_pixel = 0

\* draw_scene_outlines not called.
OverlayAtRest ==
    /\ o_pc = "idle"
    /\ o_params = <<>>
    /\ o_image = [mode |-> "L", marks |-> {}, object |-> "argument"]
    /\ o_width = 0
    /\ o_height = 0
    /\ o_matrix = <<>>
    /\ o_scene = 1
    /\ o_error = "none"
    /\ scene_colors = <<>>

\* No annotations file either.
OverlayIdle ==
    /\ OverlayAtRest
    /\ annotations = [layout |-> "no_section_details", scenes |-> <<>>]

\* generate_from_ply not called.
RunIdle ==
    /\ g_pc = "idle"
    /\ input_exists = FALSE
    /\ annotations_file = "none"
    /\ crop_bounds = <<>>
    /\ use_connected_components = FALSE
    /\ remove_outliers = FALSE
    /\ file_cloud = <<>>
    /\ point_cloud = <<>>
    /\ stage_log = <<>>
    /\ files_written = <<>>
    /\ g_result = "none"
    /\ g_exception = "none"

\* Everything but the component filter and the rasterizer at rest.
RestIdle == PixelIdle /\ OverlayIdle /\ RunIdle

\* The rasterizer before create_density_image is called.
RasterIdle ==
    /\ r_pc = "idle"
    /\ r_cloud = <<>>
    /\ flip_y = TRUE
    /\ resolution_arg = <<1, 1>>
    /\ resolution = <<1, 1>>
    /\ width = 0
    /\ height = 0
    /\ projection_matrix = <<>>
    /\ pixel_xy = <<>>
    /\ valid_mask = <<>>
    /\ valid_pixels = <<>>
    /\ acc_run = 1
    /\ acc_in_run = 0
    /\ density_image = <<>>
    /\ warnings = {}
    /\ max_val = 0
    /\ normalized = <<>>
    /\ enhanced_image = <<>>
    /\ proj_params = <<>>

\* A cloud without colours and normals.
AttributesAbsent ==
    /\ colors = <<>>
    /\ normals = <<>>
    /\ filtered_colors = <<>>
    /\ filtered_normals = <<>>

\* The filter's working state when filter_by_connected_components is entered.
FilterEntry ==
    /\ pc = "start"
    /\ min_distances = <<>>
    /\ always_included_indices = {}
    /\ sorted_point_indices = <<>>
    /\ labels = <<>>
    /\ loop_i = 0
    /\ triplets_i = <<>>
    /\ triplets_j = <<>>
    /\ current_idx = 0
    /\ last_resize = 0
    /\ filtered_triplets = <<>>
    /\ all_triplets = <<>>
    /\ components = <<>>
    /\ main_component_mask = <<>>
    /\ filtered_cloud = <<>>
    /\ dbscan_ran = FALSE
    /\ dbscan_failed = FALSE
    /\ graph_ran = FALSE
    /\ graph_cloud = <<>>
    /\ graph_origins = <<>>
    /\ returned_by = "none"
    /\ exception = "none"

InitFilter ==
    /\ \E n \in 0..MaxPoints : cloud \in [0..(n - 1) -> Coords]
    /\ \E m \in 0..MaxOrigins : scan_origins \in [1..m -> Coords]
    /\ radius \in Radii
    /\ max_nn \in MaxNNs
    /\ max_num_nearby_points \in NearbyCounts
    /\ always_include_radius \in IncludeRadii
    /\ AttributesAbsent
    /\ FilterEntry
    /\ RasterIdle
    /\ RestIdle

(* ------------------------------ actions ------------------------------- *)
\* filter_by_connected_components enters the try block: filter_using_dbscan
\* computes the distances to the scan origins and the always-included set.
DbscanStart ==
    /\ pc = "start"
    /\ dbscan_ran' = TRUE
    /\ min_distances' = MinDistances(cloud, scan_origins)
    /\ always_included_indices' =
           AlwaysIncludedIndices(MinDistances(cloud, scan_origins), always_include_radius)
    /\ pc' = "dbscan_cluster"
    /\ UNCHANGED <<outsideFilter, inputs, attrOut, sorted_point_indices, labels, loop_i, triplets_i,
                   triplets_j, current_idx, last_resize, filtered_triplets,
                   all_triplets, components, main_component_mask, filtered_cloud,
                   dbscan_failed, graph_ran, graph_cloud, graph_origins,
                   returned_by, exception>>

\* cluster_dbscan returns the labels.
DbscanCluster ==
    /\ pc = "dbscan_cluster"
    /\ labels' = ClusterDbscan(cloud, radius, MinClusterPoints)
    /\ pc' = "dbscan_select"
    /\ UNCHANGED <<outsideFilter, inputs, attrOut, min_distances, always_included_indices,
                   sorted_point_indices, loop_i, triplets_i, triplets_j,
                   current_idx, last_resize, filtered_triplets, all_triplets,
                   components, main_component_mask, filtered_cloud, dbscan_ran,
                   dbscan_failed, graph_ran, graph_cloud, graph_origins,
                   returned_by, exception>>

\* The exception propagating to the caller instead of being caught.
FallbackSkipped == "raised"

\* The except branch's target: where control goes when clustering raises.
FallbackTarget == "graph_start"

\* cluster_dbscan raises (clustering unavailable): the except branch of
\* filter_by_connected_components catches it and falls back.
DbscanRaise ==
    /\ pc = "dbscan_cluster"
    /\ dbscan_failed' = TRUE
    /\ pc' = FallbackTarget
    /\ exception' = IF FallbackTarget = "raised" THEN "ClusteringUnavailable" ELSE exception
    /\ UNCHANGED <<outsideFilter, inputs, attrOut, min_distances, always_included_indices,
                   sorted_point_indices, labels, loop_i, triplets_i, triplets_j,
                   current_idx, last_resize, filtered_triplets, all_triplets,
                   components, main_component_mask, filtered_cloud, dbscan_ran,
                   graph_ran, graph_cloud, graph_origins, returned_by>>

\* Component selection and masking of the density strategy; its cloud is
\* returned from filter_by_connected_components.
DbscanSelect ==
    /\ pc = "dbscan_select"
    /\ main_component_mask' =
           DbscanMask(labels, min_distances, always_included_indices, always_include_radius)
    /\ filtered_cloud' =
           ApplyMask(cloud, DbscanMask(labels, min_distances, always_included_indices,
                                       always_include_radius))
    /\ filtered_colors' =
           MaskedAttribute(colors, DbscanMask(labels, min_distances, always_included_indices,
                                              always_include_radius))
    /\ filtered_normals' =
           MaskedAttribute(normals, DbscanMask(labels, min_distances, always_included_indices,
                                               always_include_radius))
    /\ returned_by' = "dbscan"
    /\ pc' = "done"
    /\ UNCHANGED <<outsideFilter, inputs, min_distances, always_included_indices,
                   sorted_point_indices, labels, loop_i, triplets_i, triplets_j,
                   current_idx, last_resize, filtered_triplets, all_triplets,
                   components, dbscan_ran, dbscan_failed, graph_ran, graph_cloud,
                   graph_origins, exception>>

\* filter_using_graph starts on the arguments the except branch passes it:
\* distances, argsort, always-included set; find_triplets allocates its
\* two buffers.
GraphStart ==
    /\ pc = "graph_start"
    /\ graph_ran' = TRUE
    /\ graph_cloud' = cloud
    /\ graph_origins' = scan_origins
    /\ min_distances' = MinDistances(cloud, scan_origins)
    /\ always_included_indices' =
           AlwaysIncludedIndices(MinDistances(cloud, scan_origins), always_include_radius)
    /\ sorted_point_indices' \in ArgSorts(MinDistances(cloud, scan_origins))
    /\ triplets_i' = [k \in 0..(EstimatedCapacity(NumPoints(cloud), max_nn) - 1) |-> 0]
    /\ triplets_j' = [k \in 0..(EstimatedCapacity(NumPoints(cloud), max_nn) - 1) |-> 0]
    /\ current_idx' = 0
    /\ last_resize' = 0
    /\ loop_i' = 0
    /\ pc' = "triplets"
    /\ UNCHANGED <<outsideFilter, inputs, attrOut, labels, filtered_triplets, all_triplets, components,
                   main_component_mask, filtered_cloud, dbscan_ran, dbscan_failed,
                   returned_by, exception>>

\* Does the loop body resize the buffers at point i ?
NeedsResize(cur, k, cap, last, i) == cur + k > cap - ResizeMargin /\ last # i

\* A fresh zeroed buffer of the new size.
ResizedCleared(buf, newCap) == [k \in 0..(newCap - 1) |-> 0]

\* ndarray.resize(new_size): old entries kept, new entries zero.
Resized(buf, newCap) ==
    [k \in 0..(newCap - 1) |-> IF k \in DOMAIN buf THEN buf[k] ELSE 0]

\* The writes buf[cur], buf[cur+1], ... of the values vals (those that fit).
WriteAt(buf, cur, vals) ==
    [k \in DOMAIN buf |->
        IF k >= cur /\ k - cur < Len(vals) THEN vals[k - cur + 1] ELSE buf[k]]

\* One iteration of find_triplets' loop over the points: radius search,
\* the resize test, then the writes of the edges (i, j), j > i.  A write past
\* the end of a buffer raises IndexError, which leaves the filter.
TripletStep ==
    /\ pc = "triplets"
    /\ loop_i < NumPoints(graph_cloud)
    /\ \E js \in TripletTargets(graph_cloud, loop_i, radius, max_nn) :
         LET k      == Cardinality(SearchRadius(graph_cloud, loop_i, radius))
             cap    == NumPoints(triplets_i)
             grow   == NeedsResize(current_idx, k, cap, last_resize, loop_i)
             newCap == IF grow THEN cap * 2 ELSE cap
             is     == [m \in 1..Len(js) |-> loop_i]
             fits   == current_idx + Len(js) <= newCap
         IN  /\ last_resize' = IF grow THEN loop_i ELSE last_resize
             /\ triplets_i' = WriteAt(Resized(triplets_i, newCap), current_idx, is)
             /\ triplets_j' = WriteAt(Resized(triplets_j, newCap), current_idx, js)
             /\ current_idx' = IF fits THEN current_idx + Len(js) ELSE newCap
             /\ loop_i' = IF fits THEN loop_i + 1 ELSE loop_i
             /\ pc' = IF fits THEN "triplets" ELSE "raised"
             /\ exception' = IF fits THEN exception ELSE "IndexError"
    /\ UNCHANGED <<outsideFilter, inputs, attrOut, min_distances, always_included_indices,
                   sorted_point_indices, labels, filtered_triplets, all_triplets,
                   components, main_component_mask, filtered_cloud, dbscan_ran,
                   dbscan_failed, graph_ran, graph_cloud, graph_origins,
                   returned_by>>

\* After the loop: trim, unit weights, column_stack; find_triplets returns.
TripletsReturn ==
    /\ pc = "triplets"
    /\ loop_i = NumPoints(graph_cloud)
    /\ filtered_triplets' = ColumnStack(triplets_i, triplets_j, current_idx)
    /\ pc' = "clique"
    /\ UNCHANGED <<outsideFilter, inputs, attrOut, min_distances, always_included_indices,
                   sorted_point_indices, labels, loop_i, triplets_i, triplets_j,
                   current_idx, last_resize, all_triplets, components,
                   main_component_mask, filtered_cloud, dbscan_ran, dbscan_failed,
                   graph_ran, graph_cloud, graph_origins, returned_by, exception>>

\* The anchor clique and the concatenation.  An empty clique list becomes a
\* 1-dimensional empty array, which np.concatenate refuses to join with the
\* 2-dimensional triplets array (ValueError).
AnchorClique ==
    /\ pc = "clique"
    /\ LET nearby == NearbyPointTriplets(sorted_point_indices,
                         NumNearbyPoints(max_num_nearby_points, NumPoints(graph_cloud)))
       IN  IF nearby = <<>>
           THEN /\ pc' = "raised"
                /\ exception' = "ValueError"
                /\ UNCHANGED all_triplets
           ELSE /\ pc' = "components"
                /\ all_triplets' = filtered_triplets \o nearby
                /\ UNCHANGED exception
    /\ UNCHANGED <<outsideFilter, inputs, attrOut, min_distances, always_included_indices,
                   sorted_point_indices, labels, loop_i, triplets_i, triplets_j,
                   current_idx, last_resize, filtered_triplets, components,
                   main_component_mask, filtered_cloud, dbscan_ran, dbscan_failed,
                   graph_ran, graph_cloud, graph_origins, returned_by>>

\* coo_matrix from the combined list, then connected_components.
LabelComponents ==
    /\ pc = "components"
    /\ components' = ConnectedComponents(NumPoints(graph_cloud), all_triplets)
    /\ pc' = "graph_select"
    /\ UNCHANGED <<outsideFilter, inputs, attrOut, min_distances, always_included_indices,
                   sorted_point_indices, labels, loop_i, triplets_i, triplets_j,
                   current_idx, last_resize, filtered_triplets, all_triplets,
                   main_component_mask, filtered_cloud, dbscan_ran, dbscan_failed,
                   graph_ran, graph_cloud, graph_origins, returned_by, exception>>

\* Component selection and masking of the graph strategy; its cloud is
\* returned from filter_by_connected_components.
GraphSelect ==
    /\ pc = "graph_select"
    /\ main_component_mask' = GraphMask(components, always_included_indices)
    /\ filtered_cloud' = ApplyMask(graph_cloud, GraphMask(components, always_included_indices))
    /\ filtered_colors' = MaskedAttribute(colors, GraphMask(components, always_included_indices))
    /\ filtered_normals' = MaskedAttribute(normals, GraphMask(components, always_included_indices))
    /\ returned_by' = "graph"
    /\ pc' = "done"
    /\ UNCHANGED <<outsideFilter, inputs, min_distances, always_included_indices,
                   sorted_point_indices, labels, loop_i, triplets_i, triplets_j,
                   current_idx, last_resize, filtered_triplets, all_triplets,
                   components, dbscan_ran, dbscan_failed, graph_ran, graph_cloud,
                   graph_origins, exception>>

Next ==
    \/ DbscanStart
    \/ DbscanCluster
    \/ DbscanRaise
    \/ DbscanSelect
    \/ GraphStart
    \/ TripletStep
    \/ TripletsReturn
    \/ AnchorClique
    \/ LabelComponents
    \/ GraphSelect

Spec == InitFilter /\ [][Next]_vars

(* ------------------- find_triplets on its own ------------------------- *)
\* find_triplets as a function of (cloud, radius, max_nn): the state at its
\* entry, for clouds large enough that the estimated capacity is not zero.
InitTriplets ==
    /\ pc = "triplets"
    /\ \E n \in 0..MaxTripletPoints : cloud \in [0..(n - 1) -> Coords]
    /\ graph_cloud = cloud
    /\ scan_origins = <<>>
    /\ graph_origins = <<>>
    /\ radius \in Radii
    /\ max_nn \in TripletNNs
    /\ max_num_nearby_points = 0
    /\ always_include_radius = 1
    /\ min_distances = MinDistances(cloud, <<>>)
    /\ always_included_indices = {}
    /\ sorted_point_indices = [k \in DOMAIN cloud |-> k]
    /\ labels = <<>>
    /\ loop_i = 0
    /\ triplets_i = [k \in 0..(EstimatedCapacity(NumPoints(cloud), max_nn) - 1) |-> 0]
    /\ triplets_j = [k \in 0..(EstimatedCapacity(NumPoints(cloud), max_nn) - 1) |-> 0]
    /\ current_idx = 0
    /\ last_resize = 0
    /\ filtered_triplets = <<>>
    /\ all_triplets = <<>>
    /\ components = <<>>
    /\ main_component_mask = <<>>
    /\ filtered_cloud = <<>>
    /\ dbscan_ran = TRUE
    /\ dbscan_failed = TRUE
    /\ graph_ran = TRUE
    /\ returned_by = "none"
    /\ exception = "none"
    /\ AttributesAbsent
    /\ RasterIdle
    /\ RestIdle

NextTriplets ==
    \/ TripletStep
    \/ TripletsReturn

SpecTriplets == InitTriplets /\ [][NextTriplets]_vars

(* ======================= component filter: claims ===================== *)
InputDistances == MinDistances(cloud, scan_origins)

InputIncluded == AlwaysIncludedIndices(InputDistances, always_include_radius)

Kept == {k \in DOMAIN main_component_mask : main_component_mask[k]}

\* k is among the NumNearbyPoints points nearest to a scan origin whichever
\* way equal distances are ordered.
IsAnchor(k) ==
    /\ InputDistances[k] < Infinity
    /\ Cardinality({m \in DOMAIN cloud : m # k /\ InputDistances[m] <= InputDistances[k]})
           < NumNearbyPoints(max_num_nearby_points, NumPoints(cloud))

\* C1: once the filter has returned, every anchor point (one of the
\* min(max_num_nearby_points, n) points nearest to a scan origin) is in the
\* returned cloud, whichever strategy ran.
C1_AnchorsRetained ==
    pc = "done" => \A k \in DOMAIN cloud : IsAnchor(k) => main_component_mask[k]

StrategyLabels == IF returned_by = "dbscan" THEN labels ELSE components

\* Component c holds a point within always_include_radius of a scan origin.
Qualifies(c) ==
    /\ c # NoiseLabel
    /\ \E m \in InputIncluded : StrategyLabels[m] = c

FanOut(edges, i) == {k \in DOMAIN edges : edges[k][1] = i}

\* C4: every edge find_triplets returns has 0 <= i < j < n, no pair is
\* returned twice, and no point is the first endpoint of more than max_nn
\* edges.
C4_EdgesWellFormed ==
    /\ \A k \in DOMAIN filtered_triplets :
          /\ 0 <= filtered_triplets[k][1]
          /\ filtered_triplets[k][1] < filtered_triplets[k][2]
          /\ filtered_triplets[k][2] < NumPoints(graph_cloud)
    /\ \A a, b \in DOMAIN filtered_triplets :
          (filtered_triplets[a][1] = filtered_triplets[b][1]
             /\ filtered_triplets[a][2] = filtered_triplets[b][2]) => a = b
    /\ \A i \in DOMAIN graph_cloud :
          Cardinality(FanOut(filtered_triplets, i)) <= max_nn

\* find_triplets returned edges, and some point has more higher-indexed
\* neighbours within the radius than max_nn.
C4_Witness ==
    /\ pc = "clique"
    /\ filtered_triplets # <<>>
    /\ \E i \in DOMAIN graph_cloud :
          /\ Cardinality({j \in SearchRadius(graph_cloud, i, radius) : j > i}) > max_nn
          /\ Cardinality(FanOut(filtered_triplets, i)) = max_nn

\* C5: every edge of the combined list (proximity edges then anchor-clique
\* edges) has i < j and unit weight, is no self-loop and occurs once.
C5_CombinedEdgesOrdered ==
    /\ \A k \in DOMAIN all_triplets :
          /\ all_triplets[k][1] < all_triplets[k][2]
          /\ all_triplets[k][1] # all_triplets[k][2]
          /\ all_triplets[k][3] = 1
    /\ \A a, b \in DOMAIN all_triplets :
          (all_triplets[a][1] = all_triplets[b][1]
             /\ all_triplets[a][2] = all_triplets[b][2]) => a = b

\* The anchor points of the graph strategy: the first NumNearbyPoints
\* entries of sorted_point_indices.
GraphAnchors ==
    {sorted_point_indices[a] :
        a \in 0..(NumNearbyPoints(max_num_nearby_points, NumPoints(graph_cloud)) - 1)}

\* C6: in the graph strategy all anchor points get the same component label.
C6_AnchorsOneComponent ==
    (graph_ran /\ pc \in {"graph_select", "done"})
        => \A p, q \in GraphAnchors : components[p] = components[q]

\* Two anchors that the proximity edges alone leave in different components.
C6_Witness ==
    /\ graph_ran
    /\ pc = "done"
    /\ \E p, q \in GraphAnchors :
          /\ Distance(graph_cloud[p], graph_cloud[q]) >= radius
          /\ ConnectedComponents(NumPoints(graph_cloud), filtered_triplets)[p]
                # ConnectedComponents(NumPoints(graph_cloud), filtered_triplets)[q]

\* C7: when density clustering fails, the graph strategy runs on the same
\* cloud and origins and its result is what the filter returns; when it
\* succeeds, its result is returned and the graph strategy never runs.
C7_FallbackOnFailure ==
    /\ (dbscan_failed /\ pc # "graph_start")
          => (graph_ran /\ graph_cloud = cloud /\ graph_origins = scan_origins)
    /\ graph_ran => dbscan_failed
    /\ (pc = "done" /\ dbscan_failed)
          => (returned_by = "graph"
              /\ filtered_cloud = ApplyMask(cloud, GraphMask(components, InputIncluded)))
    /\ (pc = "done" /\ ~dbscan_failed)
          => (returned_by = "dbscan" /\ ~graph_ran
              /\ filtered_cloud = ApplyMask(cloud, DbscanMask(labels, InputDistances,
                                                InputIncluded, always_include_radius)))
    /\ (pc = "raised") => dbscan_failed /\ graph_ran

C7_Witness ==
    /\ pc = "done"
    /\ dbscan_failed
    /\ returned_by = "graph"
    /\ filtered_cloud # <<>>

(* ============================ rasterizer ============================== *)
(* create_density_image.  Coordinates are integers; the resolution and the *)
(* matrix entries are exact fractions <<num, den>> in lowest terms         *)
(* (den = 0: the inf or nan that a division by a zero image dimension      *)
(* leaves in the matrix).                                                  *)

RECURSIVE GCD(_, _)
GCD(a, b) == IF b = 0 THEN a ELSE GCD(b, a % b)

\* The fraction n / d in lowest terms with a positive denominator.
Rat(n, d) ==
    IF d = 0 THEN <<n, 0>>
    ELSE LET g == GCD(Abs(n), Abs(d))
         IN  IF d < 0 THEN <<(-n) \div g, (-d) \div g>> ELSE <<n \div g, d \div g>>

RatAdd(a, b) ==
    LET g == GCD(a[2], b[2])
        l == (a[2] \div g) * b[2]
    IN  Rat(a[1] * (l \div a[2]) + b[1] * (l \div b[2]), l)

RatMul(a, b) ==
    LET g1 == GCD(Abs(a[1]), b[2])
        g2 == GCD(Abs(b[1]), a[2])
    IN  Rat((a[1] \div g1) * (b[1] \div g2), (a[2] \div g2) * (b[2] \div g1))

SetMax(S) == CHOOSE m \in S : \A x \in S : m >= x

\* get_min_bound / get_max_bound, the x and y entries; a cloud without
\* points has both bounds at the origin.
MinBoundX(points) ==
    IF points = <<>> THEN 0 ELSE SetMin({points[k].x : k \in DOMAIN points})

MaxBoundX(points) ==
    IF points = <<>> THEN 0 ELSE SetMax({points[k].x : k \in DOMAIN points})

MinBoundY(points) ==
    IF points = <<>> THEN 0 ELSE SetMin({points[k].y : k \in DOMAIN points})

MaxBoundY(points) ==
    IF points = <<>> THEN 0 ELSE SetMax({points[k].y : k \in DOMAIN points})

\* int(np.ceil((max - min) * resolution)), for max >= min
CalculatedDimension(lo, hi, res) ==
    ((hi - lo) * res[1] + res[2] - 1) \div res[2]

\* scale_factor = min(10000 / width, 10000 / height) = 10000 / ScaleDivisor
ScaleDivisor(w, h) == IF w > h THEN w ELSE h

\* int(dim * scale_factor).  The product is computed in floating point: when
\* the exact product is an integer q the rounded product may fall just below
\* it, and int() then yields q - 1.
ScaledDimensions(dim, divisor) ==
    IF (dim * MaxDimension) % divisor = 0
    THEN {(dim * MaxDimension) \div divisor, (dim * MaxDimension) \div divisor - 1} \ {-1}
    ELSE {(dim * MaxDimension) \div divisor}

\* resolution * scale_factor
ScaledResolution(res, divisor) == Rat(res[1] * MaxDimension, res[2] * divisor)

\* The entries [0][0], [0][3], [1][1], [1][3] of projection_matrix:
\* focal_length[0], principal_point[0], -focal_length[1], principal_point[1]
ProjectionMatrix(w, h, res, minX, minY) ==
    [m00 |-> Rat(res[1], res[2] * w),
     m03 |-> Rat((-minX) * res[1], res[2] * w),
     m11 |-> Rat(-res[1], res[2] * h),
     m13 |-> Rat((-minY) * res[1], res[2] * h)]

\* np.round: to the nearest integer, halves to the even one
RoundHalfEven(r) ==
    LET q == (2 * r[1] + r[2]) \div (2 * r[2])
    IN  IF (2 * r[1] + r[2]) % (2 * r[2]) = 0 /\ q % 2 = 1 THEN q - 1 ELSE q

\* uv scaled by the dimension itself and rounded.
ScaledByFullDimension(uv, dim) == RoundHalfEven(RatMul(uv, <<dim, 1>>))

\* np.round(uv * (dimension - 1)) for a finite uv
RoundedPixel(uv, dim) == RoundHalfEven(RatMul(uv, <<dim - 1, 1>>))

\* np.round(uv * (dimension - 1)).astype(np.int32) for one axis: scale the
\* coordinate c by the matrix entry, add the offset, scale to pixels, round.
\* A non-finite value (zero image dimension) casts to the int32 minimum.
PixelCoordinate(scale, offset, c, dim) ==
    IF scale[2] = 0 \/ offset[2] = 0 THEN NanPixel
    ELSE RoundedPixel(RatAdd(RatMul(scale, <<c, 1>>), offset), dim)

\* flipped_points[:, 1] = -flipped_points[:, 1] when flip_y
FlippedY(y, flip) == IF flip THEN -y ELSE y

PixelX(m, x, w) == PixelCoordinate(m.m00, m.m03, x, w)

PixelY(m, y, flip, h) == PixelCoordinate(m.m11, m.m13, FlippedY(y, flip), h)

\* valid_mask for one point
InsideImage(px, py, w, h) == px >= 0 /\ px < w /\ py >= 0 /\ py < h

\* The runs of pixel_xy that valid_mask keeps, in order.
RECURSIVE MaskedPixels(_, _, _, _)
MaskedPixels(pix, mask, points, k) ==
    IF k > Len(pix) THEN <<>>
    ELSE (IF mask[k] THEN <<[px |-> pix[k][1], py |-> pix[k][2], n |-> points[k].n]>>
          ELSE <<>>) \o MaskedPixels(pix, mask, points, k + 1)

\* np.sum(valid_mask): the number of points the runs from k on stand for.
RECURSIVE PointCount(_, _)
PointCount(runs, k) ==
    IF k > Len(runs) THEN 0 ELSE runs[k].n + PointCount(runs, k + 1)

\* density_image[y, x] += 1 on a uint16 array
Incremented(count) == (count + 1) % CounterModulus

\* The component filter when only the rasterizer runs.
FilterIdle ==
    /\ pc = "idle"
    /\ cloud = <<>>
    /\ scan_origins = <<>>
    /\ radius = 1
    /\ max_nn = 1
    /\ max_num_nearby_points = 0
    /\ always_include_radius = 1
    /\ min_distances = <<>>
    /\ always_included_indices = {}
    /\ sorted_point_indices = <<>>
    /\ labels = <<>>
    /\ loop_i = 0
    /\ triplets_i = <<>>
    /\ triplets_j = <<>>
    /\ current_idx = 0
    /\ last_resize = 0
    /\ filtered_triplets = <<>>
    /\ all_triplets = <<>>
    /\ components = <<>>
    /\ main_component_mask = <<>>
    /\ filtered_cloud = <<>>
    /\ dbscan_ran = FALSE
    /\ dbscan_failed = FALSE
    /\ graph_ran = FALSE
    /\ graph_cloud = <<>>
    /\ graph_origins = <<>>
    /\ returned_by = "none"
    /\ exception = "none"
    /\ AttributesAbsent

\* create_density_image is called on a cloud.
RasterEntry ==
    /\ r_pc = "start"
    /\ resolution = resolution_arg
    /\ width = 0
    /\ height = 0
    /\ projection_matrix = <<>>
    /\ pixel_xy = <<>>
    /\ valid_mask = <<>>
    /\ valid_pixels = <<>>
    /\ acc_run = 1
    /\ acc_in_run = 0
    /\ density_image = <<>>
    /\ warnings = {}
    /\ max_val = 0
    /\ normalized = <<>>
    /\ enhanced_image = <<>>
    /\ proj_params = <<>>

InitRaster ==
    /\ FilterIdle
    /\ \E f \in RasterFamilies :
          /\ \E n \in 0..MaxRasterPoints :
                r_cloud \in [1..n -> [x : f.xs, y : f.ys, n : {1}]]
          /\ resolution_arg \in f.rs
    /\ flip_y \in BOOLEAN
    /\ RasterEntry
    /\ RestIdle

\* Bounds, image dimensions and the cap at MaxDimension.  The scale factor
\* is a quotient of Python ints: a zero dimension next to an oversized one
\* raises ZeroDivisionError.
ComputeDimensions ==
    /\ r_pc = "start"
    /\ LET w0 == CalculatedDimension(MinBoundX(r_cloud), MaxBoundX(r_cloud), resolution)
           h0 == CalculatedDimension(MinBoundY(r_cloud), MaxBoundY(r_cloud), resolution)
       IN  IF w0 > MaxDimension \/ h0 > MaxDimension
           THEN IF w0 = 0 \/ h0 = 0
                THEN /\ r_pc' = "raised"
                     /\ UNCHANGED <<width, height, resolution>>
                ELSE /\ width' \in ScaledDimensions(w0, ScaleDivisor(w0, h0))
                     /\ height' \in ScaledDimensions(h0, ScaleDivisor(w0, h0))
                     /\ resolution' = ScaledResolution(resolution, ScaleDivisor(w0, h0))
                     /\ r_pc' = "matrix"
           ELSE /\ width' = w0
                /\ height' = h0
                /\ r_pc' = "matrix"
                /\ UNCHANGED resolution
    /\ UNCHANGED <<outsideRaster, r_cloud, flip_y, resolution_arg, projection_matrix,
                   pixel_xy, valid_mask, valid_pixels, acc_run, acc_in_run,
                   density_image, warnings, normVars>>

\* The projection matrix, from the width, height and resolution in force.
BuildProjection ==
    /\ r_pc = "matrix"
    /\ projection_matrix' = ProjectionMatrix(width, height, resolution,
                                MinBoundX(r_cloud), MinBoundY(r_cloud))
    /\ r_pc' = "project"
    /\ UNCHANGED <<outsideRaster, r_cloud, flip_y, resolution_arg, resolution, width,
                   height, pixel_xy, valid_mask, valid_pixels, acc_run, acc_in_run,
                   density_image, warnings, normVars>>

\* The cloud after a flip done on np.asarray(processed_cloud.points), a
\* view of the cloud's own coordinates.
CloudFlippedInPlace(c, flip) ==
    [k \in DOMAIN c |-> [c[k] EXCEPT !.y = FlippedY(@, flip)]]

\* The cloud after `flipped_points = points.copy()` and the negation of
\* the copy's y column: as it was.
CloudAfterFlip(c, flip) == c

\* Flip, project, round to pixels, mask; the count grid starts at zero.
ProjectPoints ==
    /\ r_pc = "project"
    /\ LET pix  == [k \in DOMAIN r_cloud |->
                       <<PixelX(projection_matrix, r_cloud[k].x, width),
                         PixelY(projection_matrix, r_cloud[k].y, flip_y, height)>>]
           mask == [k \in DOMAIN r_cloud |-> InsideImage(pix[k][1], pix[k][2], width, height)]
           kept == MaskedPixels(pix, mask, r_cloud, 1)
       IN  /\ pixel_xy' = pix
           /\ valid_mask' = mask
           /\ valid_pixels' = kept
           /\ density_image' = [p \in {<<kept[k].px, kept[k].py>> : k \in DOMAIN kept} |-> 0]
           /\ warnings' = IF PointCount(kept, 1) < FewPointsLimit
                          THEN warnings \cup {"few_points"} ELSE warnings
    /\ acc_run' = 1
    /\ acc_in_run' = 0
    /\ r_pc' = "accumulate"
    /\ r_cloud' = CloudAfterFlip(r_cloud, flip_y)
    /\ UNCHANGED <<outsideRaster, flip_y, resolution_arg, resolution, width,
                   height, projection_matrix, normVars>>

\* One iteration of `for x, y in zip(pixel_x, pixel_y)`.
AccumulateStep ==
    /\ r_pc = "accumulate"
    /\ acc_run <= Len(valid_pixels)
    /\ LET p == valid_pixels[acc_run]
       IN  /\ density_image' =
                 [density_image EXCEPT ![<<p.px, p.py>>] = Incremented(@)]
           /\ IF acc_in_run + 1 = p.n
              THEN acc_run' = acc_run + 1 /\ acc_in_run' = 0
              ELSE acc_run' = acc_run /\ acc_in_run' = acc_in_run + 1
    /\ UNCHANGED <<outsideRaster, r_pc, r_cloud, flip_y, resolution_arg, resolution,
                   width, height, projection_matrix, pixel_xy, valid_mask,
                   valid_pixels, warnings, normVars>>

\* The loop is over: every retained point was counted.
AccumulateDone ==
    /\ r_pc = "accumulate"
    /\ acc_run > Len(valid_pixels)
    /\ r_pc' = "accumulated"
    /\ UNCHANGED <<outsideRaster, r_cloud, flip_y, resolution_arg, resolution, width,
                   height, projection_matrix, pixel_xy, valid_mask, valid_pixels,
                   acc_run, acc_in_run, density_image, warnings, normVars>>

\* The parameters of the image as first calculated, before the cap at
\* MaxDimension.
ParamsBeforeDownscale ==
    [width |-> CalculatedDimension(MinBoundX(r_cloud), MaxBoundX(r_cloud), resolution_arg),
     height |-> CalculatedDimension(MinBoundY(r_cloud), MaxBoundY(r_cloud), resolution_arg),
     projection_matrix |->
        ProjectionMatrix(
            CalculatedDimension(MinBoundX(r_cloud), MaxBoundX(r_cloud), resolution_arg),
            CalculatedDimension(MinBoundY(r_cloud), MaxBoundY(r_cloud), resolution_arg),
            resolution_arg, MinBoundX(r_cloud), MinBoundY(r_cloud))]

\* params: the width, height and projection matrix in force at the return.
ReturnedParams ==
    [width |-> width, height |-> height, projection_matrix |-> projection_matrix]

\* np.max(density_image): the largest count, 0 when no point hit a pixel.
MaxCount(image) ==
    IF DOMAIN image = {} THEN 0 ELSE SetMax({image[p] : p \in DOMAIN image})

\* The only count above the largest one.
NormalizedAgainstNextCount(count, maxCount) ==
    (255 * (maxCount + 1) - 255 * count) \div (maxCount + 1)

\* (255.0 - (count / max_val) * 255.0).astype(np.uint8): the float32 result
\* cut to an integer; it equals the exact quotient cut to an integer for
\* every count <= max_val <= 65535.
NormalizedValue(count, maxCount) == (255 * maxCount - 255 * count) \div maxCount

\* normalized, then image_8bit: white everywhere when max_val is 0.
NormalizedImage(image, maxCount) ==
    IF maxCount > 0
    THEN [hit |-> [p \in DOMAIN image |-> NormalizedValue(image[p], maxCount)],
          rest |-> NormalizedValue(0, maxCount)]
    ELSE [hit |-> [p \in DOMAIN image |-> 255], rest |-> 255]

RECURSIVE SumOver(_, _)
SumOver(f, S) ==
    IF S = {} THEN 0
    ELSE LET p == CHOOSE q \in S : TRUE IN f[p] + SumOver(f, S \ {p})

\* ImageEnhance.Contrast: int(mean + 0.5) over the w * h pixels of the image.
MeanLevel(img, w, h) ==
    LET delta == SumOver(img.hit, DOMAIN img.hit) - img.rest * Cardinality(DOMAIN img.hit)
    IN  img.rest + (2 * delta + w * h) \div (2 * w * h)

\* Image.blend(degenerate, image, 4.0) on one pixel, clipped to 0..255.
EnhancedValue(v, mean) ==
    LET t == mean + ContrastFactor * (v - mean)
    IN  IF t <= 0 THEN 0 ELSE IF t >= 255 THEN 255 ELSE t

\* enhance_image
EnhancedImage(img, w, h) ==
    LET mean == MeanLevel(img, w, h)
    IN  [hit |-> [p \in DOMAIN img.hit |-> EnhancedValue(img.hit[p], mean)],
         rest |-> EnhancedValue(img.rest, mean)]

\* max_val = np.max(density_image) and the rest up to the return: np.max
\* raises ValueError on an image with no pixels.  Otherwise the counts are
\* normalized (with a warning when max_val is 0), the image is enhanced and
\* returned with the projection parameters.
NormalizeImage ==
    /\ r_pc = "accumulated"
    /\ IF width = 0 \/ height = 0
       THEN /\ r_pc' = "raised"
            /\ UNCHANGED <<warnings, normVars>>
       ELSE /\ max_val' = MaxCount(density_image)
            /\ warnings' = IF MaxCount(density_image) > 0 THEN warnings
                           ELSE warnings \cup {"no_points"}
            /\ normalized' = NormalizedImage(density_image, MaxCount(density_image))
            /\ enhanced_image' =
                  EnhancedImage(NormalizedImage(density_image, MaxCount(density_image)),
                                width, height)
            /\ proj_params' = ReturnedParams
            /\ r_pc' = "returned"
    /\ UNCHANGED <<outsideRaster, r_cloud, flip_y, resolution_arg, resolution, width,
                   height, projection_matrix, pixel_xy, valid_mask, valid_pixels,
                   acc_run, acc_in_run, density_image>>

NextRaster ==
    \/ ComputeDimensions
    \/ BuildProjection
    \/ ProjectPoints
    \/ AccumulateStep
    \/ AccumulateDone
    \/ NormalizeImage

SpecRaster == InitRaster /\ [][NextRaster]_vars

\* Clouds with several points on one spot: two locations, the first
\* holding 1, 3 or BigRun points, the second 1 or 2.
InitAccumulate ==
    /\ FilterIdle
    /\ \E c \in {1, 3, BigRun}, d \in {1, 2}, e \in {1, 2} :
          r_cloud = <<[x |-> 0, y |-> 0, n |-> c], [x |-> d, y |-> d, n |-> e]>>
    /\ flip_y = TRUE
    /\ resolution_arg \in {<<1, 1>>, <<2, 1>>}
    /\ RasterEntry
    /\ RestIdle

SpecAccumulate == InitAccumulate /\ [][NextRaster]_vars

(* ========================== rasterizer: claims ======================== *)
MatrixBuilt == r_pc \in {"project", "accumulate", "accumulated", "returned"}

\* "Calculated image dimensions": the width and height before the cap.
InputWidth == CalculatedDimension(MinBoundX(r_cloud), MaxBoundX(r_cloud), resolution_arg)

InputHeight == CalculatedDimension(MinBoundY(r_cloud), MaxBoundY(r_cloud), resolution_arg)

Oversized == InputWidth > MaxDimension \/ InputHeight > MaxDimension

\* The corner (cx, cy) of the bounding box lands inside the image.
CornerInside(cx, cy) ==
    InsideImage(PixelX(projection_matrix, cx, width),
                PixelY(projection_matrix, cy, flip_y, height), width, height)

\* C8: for any cloud, resolution and y-flip setting, with or without the
\* downscale, the four corners of the XY bounding box project to pixels
\* inside [0, width) x [0, height).
C8_CornersInsideImage ==
    MatrixBuilt =>
        \A cx \in {MinBoundX(r_cloud), MaxBoundX(r_cloud)},
           cy \in {MinBoundY(r_cloud), MaxBoundY(r_cloud)} : CornerInside(cx, cy)

\* The downscaled result: both dimensions fit, width, height and resolution
\* are the calculated ones times MaxDimension / max(width, height) (width
\* and height cut to integers), and the matrix is the one of those values.
DownscaledResult ==
    LET d == ScaleDivisor(InputWidth, InputHeight)
    IN  /\ width <= MaxDimension
        /\ height <= MaxDimension
        /\ width * d <= InputWidth * MaxDimension
        /\ InputWidth * MaxDimension <= (width + 1) * d
        /\ height * d <= InputHeight * MaxDimension
        /\ InputHeight * MaxDimension <= (height + 1) * d
        /\ resolution[1] * resolution_arg[2] * d
              = resolution_arg[1] * MaxDimension * resolution[2]
        /\ projection_matrix = ProjectionMatrix(width, height, resolution,
                                   MinBoundX(r_cloud), MinBoundY(r_cloud))

\* C9: whenever a calculated dimension exceeds MaxDimension, the function
\* returns (it does not raise) and what it returns is the downscaled
\* result: width and height at most MaxDimension, all three scaled by the
\* same factor, the matrix computed from the scaled values.
C9_DownscaleReturnsFittedImage ==
    (Oversized /\ r_pc \in {"returned", "raised"}) =>
        (r_pc = "returned" /\ DownscaledResult)

\* Whenever the function gets past the scale factor, what it goes on with
\* is the downscaled result.
DownscaledWhenReturned == (Oversized /\ MatrixBuilt) => DownscaledResult

\* The number of points the accumulation loop has processed at pixel p.
RECURSIVE CountedFrom(_, _)
CountedFrom(p, k) ==
    IF k > Len(valid_pixels) \/ k > acc_run THEN 0
    ELSE (IF <<valid_pixels[k].px, valid_pixels[k].py>> # p THEN 0
          ELSE IF k < acc_run THEN valid_pixels[k].n
          ELSE acc_in_run) + CountedFrom(p, k + 1)

\* C10: the count stored for a pixel is the number of retained points that
\* project to it, however many they are: the counter never wraps.
C10_CountsExact ==
    r_pc \in {"accumulate", "accumulated", "returned"} =>
        \A p \in DOMAIN density_image : density_image[p] = CountedFrom(p, 1)

(* ================= the two pixel-index computations =================== *)
(* create_density_image rounds uv * (dimension - 1); project_point in      *)
(* draw_scene_outlines floors uv * dimension and clamps.  Both are applied *)
(* here to one normalized coordinate and one dimension.                    *)
MaxDenominator == 8
MaxPixelDimension == 8

\* np.floor(uv * dimension) pushed one pixel up and left unclamped.
FlooredPixelNextUp(uv, dim) == (uv[1] * dim) \div uv[2] + 1

\* project_point: np.floor(uv * dimension), then max(0, min(px, dimension - 1))
FlooredPixel(uv, dim) ==
    LET px == (uv[1] * dim) \div uv[2]
    IN  IF px < 0 THEN 0 ELSE IF px > dim - 1 THEN dim - 1 ELSE px

\* The normalized coordinates in [0, 1] with a denominator up to MaxDenominator.
UnitFractions ==
    {u \in {Rat(a, b) : a \in 0..MaxDenominator, b \in 1..MaxDenominator} : u[1] <= u[2]}

InitPixel ==
    /\ FilterIdle
    /\ RasterIdle
    /\ x_pc = "start"
    /\ uv_value \in UnitFractions
    /\ dimension \in 1..MaxPixelDimension
    /\ density_pixel = 0
    /\ annotation_pixel = 0
    /\ OverlayIdle
    /\ RunIdle

\* The density path: pixel = round(uv * (dimension - 1)).
DensityPath ==
    /\ x_pc = "start"
    /\ density_pixel' = RoundedPixel(uv_value, dimension)
    /\ x_pc' = "density"
    /\ UNCHANGED <<filterVars, rasterVars, overlayVars, runVars, uv_value,
                   dimension, annotation_pixel>>

\* The annotation path: pixel = floor(uv * dimension), clamped.
AnnotationPath ==
    /\ x_pc = "density"
    /\ annotation_pixel' = FlooredPixel(uv_value, dimension)
    /\ x_pc' = "done"
    /\ UNCHANGED <<filterVars, rasterVars, overlayVars, runVars, uv_value,
                   dimension, density_pixel>>

NextPixel == DensityPath \/ AnnotationPath

SpecPixel == InitPixel /\ [][NextPixel]_vars

\* C16: for a normalized coordinate in [0, 1] and a dimension of at least
\* one pixel, the rounded index of the density path and the floored,
\* clamped index of the annotation path differ by at most one.
C16_PathsWithinOnePixel ==
    x_pc = "done" =>
        /\ density_pixel - annotation_pixel <= 1
        /\ annotation_pixel - density_pixel <= 1

\* The two paths disagree, in one direction and in the other.
C16_Witness ==
    /\ x_pc = "done"
    /\ annotation_pixel = density_pixel + 1
    /\ \E u \in UnitFractions :
          /\ RoundedPixel(u, dimension) = FlooredPixel(u, dimension) + 1

(* ======================= normalization: claims ======================== *)
\* The points were projected and masked.
Projected == projection_matrix # <<>> /\ r_pc \notin {"matrix", "project"}

\* No point landed inside the image.
NothingInside == Projected /\ PointCount(valid_pixels, 1) = 0

\* Every pixel of the image img has the value v.
Uniform(img, v) == img # <<>> /\ img.rest = v /\ \A p \in DOMAIN img.hit : img.hit[p] = v

\* C13: when no point lands inside the raster bounds, create_density_image
\* does not raise: it returns an image whose every pixel is 255 and the
\* only trace of the condition is the warning.
C13_EmptyProjectionAllWhite ==
    (NothingInside /\ r_pc \in {"returned", "raised"}) =>
        /\ r_pc = "returned"
        /\ Uniform(normalized, 255)
        /\ Uniform(enhanced_image, 255)
        /\ "no_points" \in warnings

\* When the image has pixels and none was hit, it comes out white.
AllWhiteWhenImageHasPixels ==
    (NothingInside /\ r_pc \in {"returned", "raised"} /\ width > 0 /\ height > 0) =>
        /\ r_pc = "returned"
        /\ Uniform(normalized, 255)
        /\ Uniform(enhanced_image, 255)
        /\ "no_points" \in warnings

\* An image with pixels, none of which was hit.
AllWhiteReached == NothingInside /\ r_pc = "returned" /\ r_cloud # <<>>

\* C14: when max_val > 0 each normalized value is 255 - (count / max_val) *
\* 255 cut to an integer in 0..255; the pixel holding max_val gets 0, a
\* pixel with count 0 gets 255, and a larger count never gives a larger
\* value.
C14_DenserIsDarker ==
    (r_pc = "returned" /\ max_val > 0) =>
        /\ \A p \in DOMAIN density_image :
              /\ normalized.hit[p] \in 0..255
              /\ normalized.hit[p] * max_val <= 255 * max_val - 255 * density_image[p]
              /\ 255 * max_val - 255 * density_image[p] < (normalized.hit[p] + 1) * max_val
              /\ density_image[p] = max_val => normalized.hit[p] = 0
              /\ density_image[p] = 0 => normalized.hit[p] = 255
        /\ normalized.rest = 255
        /\ \A p, q \in DOMAIN density_image :
              density_image[p] > density_image[q] => normalized.hit[p] <= normalized.hit[q]

\* Two pixels with different counts, the sparser one strictly between
\* black and white.
C14_Witness ==
    /\ r_pc = "returned"
    /\ \E p, q \in DOMAIN density_image :
          /\ density_image[p] = max_val
          /\ 0 < density_image[q]
          /\ density_image[q] < max_val
          /\ 0 < normalized.hit[q]
          /\ normalized.hit[q] < 255

(* ================== attributes of the filtered cloud ================== *)
(* Clouds that carry colours, normals, both or neither.  A colour or a     *)
(* normal is a tag that names the point it belongs to.                     *)
InitAttributes ==
    /\ \E n \in 0..MaxPoints : cloud \in [0..(n - 1) -> Coords]
    /\ \E c \in Coords : scan_origins = <<c>>
    /\ radius = 1
    /\ max_nn \in MaxNNs
    /\ max_num_nearby_points = 3
    /\ always_include_radius \in IncludeRadii
    /\ colors \in {<<>>, [k \in DOMAIN cloud |-> 100 + k]}
    /\ normals \in {<<>>, [k \in DOMAIN cloud |-> 200 + k]}
    /\ filtered_colors = <<>>
    /\ filtered_normals = <<>>
    /\ FilterEntry
    /\ RasterIdle
    /\ RestIdle

SpecAttributes == InitAttributes /\ [][Next]_vars

\* The j-th retained index, counting from 1 in input order.
RetainedIndex(j) ==
    CHOOSE k \in Kept : Cardinality({m \in Kept : m < k}) = j - 1

\* The output array out holds, in input order, the entries of the input
\* array in that the mask retains, and nothing else.
SelectedByMask(out, in) ==
    /\ DOMAIN out = 1..Cardinality(Kept)
    /\ \A j \in DOMAIN out : out[j] = in[RetainedIndex(j)]

\* C20: in the cloud either strategy returns, positions, colours and
\* normals are selected by the same mask: the k-th output point has the
\* position, colour and normal of the k-th retained input point, in input
\* order, nothing added or duplicated; an attribute the input lacks is
\* absent from the output.
C20_AttributesInLockstep ==
    pc = "done" =>
        /\ SelectedByMask(filtered_cloud, cloud)
        /\ IF colors = <<>> THEN filtered_colors = <<>>
           ELSE SelectedByMask(filtered_colors, colors)
        /\ IF normals = <<>> THEN filtered_normals = <<>>
           ELSE SelectedByMask(filtered_normals, normals)

\* A cloud with colours and normals from which a point is dropped ahead of
\* a retained one, so that output positions differ from input positions.
C20_Witness ==
    /\ pc = "done"
    /\ colors # <<>>
    /\ normals # <<>>
    /\ \E a, b \in DOMAIN cloud : a < b /\ ~main_component_mask[a] /\ main_component_mask[b]
    /\ filtered_colors # <<>>

\* The same in the graph strategy.
LockstepInGraphReached == C20_Witness /\ returned_by = "graph"

(* ====================== draw_scene_outlines ========================== *)
(* A scene of the annotations file is described by what it holds:         *)
(*   "complete"       outline of three points or more, name and id        *)
(*   "no_name"        as complete, without 'name'                         *)
(*   "no_outline"     no 'outline' key                                    *)
(*   "no_xy"          an outline point without 'x' or without 'y'         *)
(*   "empty_outline"  'outline' is an empty list                          *)
(*   "no_id"          as complete, without 'id'                           *)
(*   "no_id_no_name"  as complete, without 'id' and without 'name'        *)
(* The image is the base image plus the marks painted on it: every mark   *)
(* changes pixels, the outline colours being saturated hues painted on    *)
(* points clamped into a gray image.                                      *)
MaxScenes == 3

SceneKinds == {"complete", "no_name", "no_outline", "no_xy", "empty_outline",
               "no_id", "no_id_no_name"}

\* What the file holds down to the list of scenes.
Layouts == {"no_section_details", "no_scenes", "complete"}

AnnotationFiles ==
    {[layout |-> "complete", scenes |-> sc] :
        sc \in UNION {[1..n -> SceneKinds] : n \in 0..MaxScenes}}
    \cup {[layout |-> l, scenes |-> <<>>] : l \in Layouts \ {"complete"}}

\* The marks of one scene, painted in place on the image the earlier
\* scenes were painted on: fill and outline, then the label.
FillAndOutline(i, hue) == {<<i, "fill", hue>>, <<i, "outline", hue>>}

\* The box behind the label is black, whatever the scene.
Black == <<0, 0>>

Label(i, hue) == {<<i, "label_box", Black>>, <<i, "label_text", hue>>}

\* The hue of the scene at position i (from 0) of count scenes, one more
\* than it should be.
SceneHueFromOne(i, count) == Rat(i + 1, count)

\* h = i / scene_count
SceneHue(i, count) == Rat(i, count)

\* scene_colors, built before the first scene is drawn.
SceneColors(count) == [i \in 1..count |-> SceneHue(i - 1, count)]

\* `if image.mode != 'RGB': image = image.convert('RGB')`: convert returns
\* a new image object.
Converted(img) ==
    IF img.mode # "RGB" THEN [img EXCEPT !.mode = "RGB", !.object = "converted"]
    ELSE img

\* json.load(f)['section_details'], the conversion to RGB, the projection
\* parameters, the drawing context and the scene colours.  A file without
\* 'section_details' raises before the conversion, one without the list of
\* scenes after it; the except clause prints and returns the image.
OverlayLoad ==
    /\ o_pc = "start"
    /\ IF annotations.layout = "no_section_details"
       THEN /\ o_error' = "KeyError"
            /\ o_pc' = "returned"
            /\ UNCHANGED <<o_image, o_width, o_height, o_matrix, scene_colors>>
       ELSE /\ o_image' = Converted(o_image)
            /\ o_width' = o_params.width
            /\ o_height' = o_params.height
            /\ o_matrix' = o_params.projection_matrix
            /\ IF annotations.layout = "no_scenes"
               THEN /\ o_error' = "KeyError"
                    /\ o_pc' = "returned"
                    /\ UNCHANGED scene_colors
               ELSE /\ o_error' = o_error
                    /\ o_pc' = "loop"
                    /\ scene_colors' = SceneColors(Len(annotations.scenes))
    /\ o_scene' = 1
    /\ UNCHANGED <<filterVars, rasterVars, pixelVars, runVars, annotations, o_params>>

\* One iteration of `for i, scene in enumerate(...)`.  scene['outline'] and
\* point['x'], point['y'] are read before anything of the scene is drawn;
\* an empty outline fails in draw.polygon or at image_points[0]; the
\* default of scene.get('name', f"Scene {scene['id']}") is evaluated
\* whether 'name' is there or not, after the fill and the outline of the
\* scene were drawn.  Every exception ends in the except clause, which
\* returns the image as drawn so far.
DrawScene ==
    /\ o_pc = "loop"
    /\ o_scene <= Len(annotations.scenes)
    /\ LET kind == annotations.scenes[o_scene]
       IN  CASE kind \in {"no_outline", "no_xy"} ->
                  /\ o_error' = "KeyError"
                  /\ o_pc' = "returned"
                  /\ UNCHANGED <<o_image, o_scene>>
             [] kind = "empty_outline" ->
                  /\ o_error' \in {"TypeError", "IndexError"}
                  /\ o_pc' = "returned"
                  /\ UNCHANGED <<o_image, o_scene>>
             [] kind \in {"no_id", "no_id_no_name"} ->
                  /\ o_image' = [o_image EXCEPT
                                    !.marks = @ \cup FillAndOutline(o_scene,
                                                                  scene_colors[o_scene])]
                  /\ o_error' = "KeyError"
                  /\ o_pc' = "returned"
                  /\ UNCHANGED o_scene
             [] OTHER ->
                  /\ o_image' = [o_image EXCEPT
                                    !.marks = @ \cup FillAndOutline(o_scene, scene_colors[o_scene])
                                                \cup Label(o_scene, scene_colors[o_scene])]
                  /\ o_scene' = o_scene + 1
                  /\ UNCHANGED <<o_error, o_pc>>
    /\ UNCHANGED <<filterVars, rasterVars, pixelVars, runVars, annotations, o_params,
                   o_width, o_height, o_matrix, scene_colors>>

\* `return image` after the last scene.
OverlayReturn ==
    /\ o_pc = "loop"
    /\ o_scene > Len(annotations.scenes)
    /\ o_pc' = "returned"
    /\ UNCHANGED <<filterVars, rasterVars, pixelVars, runVars, annotations, o_params,
                   o_image, o_width, o_height, o_matrix, o_scene, o_error,
                   scene_colors>>

NextOverlay == OverlayLoad \/ DrawScene \/ OverlayReturn

\* draw_scene_outlines called on a grayscale image.
OverlayEntry ==
    /\ o_pc = "start"
    /\ o_image = [mode |-> "L", marks |-> {}, object |-> "argument"]
    /\ o_width = 0
    /\ o_height = 0
    /\ o_matrix = <<>>
    /\ o_scene = 1
    /\ o_error = "none"
    /\ scene_colors = <<>>

InitOverlay ==
    /\ FilterIdle
    /\ RasterIdle
    /\ PixelIdle
    /\ RunIdle
    /\ annotations \in AnnotationFiles
    /\ \E w \in {1, 2} :
          o_params = [width |-> w, height |-> 1,
                      projection_matrix |-> ProjectionMatrix(w, 1, <<1, 1>>, 0, 0)]
    /\ OverlayEntry

SpecOverlay == InitOverlay /\ [][NextOverlay]_vars

\* A malformed polygon ended the drawing.
MalformedMet ==
    /\ o_pc = "returned"
    /\ annotations.layout = "complete"
    /\ o_error # "none"

\* C11: when a malformed polygon is met at any position of the list,
\* draw_scene_outlines raises nothing and returns an image pixel-identical
\* to the base image it was given, also after well-formed polygons.
C11_MalformedReturnsBase ==
    MalformedMet => o_image.marks = {}

\* A malformed polygon that is read before anything was drawn (a first
\* scene without outline, without x or y, or with an empty outline)
\* returns the base image.
BaseWhenNothingDrawnBefore ==
    (MalformedMet /\ o_scene = 1
        /\ annotations.scenes[1] \in {"no_outline", "no_xy", "empty_outline"})
    => o_image.marks = {}

BaseReturnedReached ==
    MalformedMet /\ o_scene = 1 /\ o_image.marks = {} /\ Len(annotations.scenes) > 1

(* ========================= generate_from_ply ========================== *)
(* The run: output directory, input check, load, optional crop, optional  *)
(* component filter, create_density_image (which removes the outliers     *)
(* itself, when asked to), the density image, the optional overlay.  The   *)
(* rasterizer and the overlay are the machines above, entered from here.  *)
(* filter_by_connected_components and remove_statistical_outlier are      *)
(* taken by their contract: each returns some of the points it was given, *)
(* in their order; the filter may also raise (its graph strategy does).   *)
MaxRunPoints == 2

RunClouds ==
    UNION {[1..n -> [x : {0, 4}, y : {0, 2, 10001}, n : {1}]] : n \in 0..MaxRunPoints}

\* crop_bounds: None, or a box that holds the points with y up to 2.
RunCropBounds == {<<>>, <<0, 4, 0, 2>>}

RunAnnotationFiles == {a \in AnnotationFiles : Len(a.scenes) <= 1}

FilterExceptions == {"IndexError", "ValueError"}

RECURSIVE SelectedRuns(_, _, _)
\* The runs of c from k on whose index is in keep, in order.
SelectedRuns(c, keep, k) ==
    IF k > Len(c) THEN <<>>
    ELSE (IF k \in keep THEN <<c[k]>> ELSE <<>>) \o SelectedRuns(c, keep, k + 1)

SubClouds(c) == {SelectedRuns(c, keep, 1) : keep \in SUBSET DOMAIN c}

\* point_cloud.crop(bbox): x and y within the bounds, z unbounded.
Cropped(c, b) ==
    SelectedRuns(c, {k \in DOMAIN c : /\ b[1] <= c[k].x /\ c[k].x <= b[2]
                                      /\ b[3] <= c[k].y /\ c[k].y <= b[4]}, 1)

\* The input check run on every file, whether it exists or not.
InputCheckSkipped(exists) == "load"

\* `if not os.path.exists(input_file): raise FileNotFoundError`
InputCheck(exists) == IF exists THEN "load" ELSE "raised"

InitRun ==
    /\ FilterIdle
    /\ RasterIdle
    /\ PixelIdle
    /\ OverlayAtRest
    /\ g_pc = "start"
    /\ input_exists \in BOOLEAN
    /\ annotations_file \in {"none", "missing", "present"}
    /\ IF annotations_file = "present"
       THEN annotations \in RunAnnotationFiles
       ELSE annotations = [layout |-> "no_section_details", scenes |-> <<>>]
    /\ crop_bounds \in RunCropBounds
    /\ use_connected_components \in BOOLEAN
    /\ remove_outliers \in BOOLEAN
    /\ file_cloud \in RunClouds
    /\ point_cloud = <<>>
    /\ stage_log = <<>>
    /\ files_written = <<>>
    /\ g_result = "none"
    /\ g_exception = "none"

\* os.makedirs(output_dir, exist_ok=True) and the output paths.
MakeOutputDir ==
    /\ g_pc = "start"
    /\ stage_log' = Append(stage_log, "makedirs")
    /\ g_pc' = "check"
    /\ UNCHANGED <<filterVars, rasterVars, pixelVars, overlayVars, input_exists,
                   annotations_file, crop_bounds, use_connected_components,
                   remove_outliers, file_cloud, point_cloud, files_written,
                   g_result, g_exception>>

\* The check of the input file.
CheckInput ==
    /\ g_pc = "check"
    /\ g_pc' = InputCheck(input_exists)
    /\ g_exception' = IF InputCheck(input_exists) = "raised"
                      THEN "FileNotFoundError" ELSE g_exception
    /\ UNCHANGED <<filterVars, rasterVars, pixelVars, overlayVars, input_exists,
                   annotations_file, crop_bounds, use_connected_components,
                   remove_outliers, file_cloud, point_cloud, stage_log,
                   files_written, g_result>>

\* o3d.io.read_point_cloud(input_file)
LoadCloud ==
    /\ g_pc = "load"
    /\ point_cloud' = file_cloud
    /\ stage_log' = Append(stage_log, "load")
    /\ g_pc' = "crop"
    /\ UNCHANGED <<filterVars, rasterVars, pixelVars, overlayVars, input_exists,
                   annotations_file, crop_bounds, use_connected_components,
                   remove_outliers, file_cloud, files_written, g_result,
                   g_exception>>

\* `if crop_bounds is not None: point_cloud = point_cloud.crop(bbox)`
CropCloud ==
    /\ g_pc = "crop"
    /\ IF crop_bounds # <<>>
       THEN /\ point_cloud' = Cropped(point_cloud, crop_bounds)
            /\ stage_log' = Append(stage_log, "crop")
       ELSE UNCHANGED <<point_cloud, stage_log>>
    /\ g_pc' = "filter"
    /\ UNCHANGED <<filterVars, rasterVars, pixelVars, overlayVars, input_exists,
                   annotations_file, crop_bounds, use_connected_components,
                   remove_outliers, file_cloud, files_written, g_result,
                   g_exception>>

\* `if use_connected_components:` the filter is given the cloud as it is
\* at this point, with the mean point as scan origin.
FilterComponents ==
    /\ g_pc = "filter"
    /\ IF use_connected_components
       THEN /\ stage_log' = Append(stage_log, "component_filter")
            /\ \/ /\ point_cloud' \in SubClouds(point_cloud)
                  /\ g_pc' = "rasterize"
                  /\ UNCHANGED g_exception
               \/ /\ g_exception' \in FilterExceptions
                  /\ g_pc' = "raised"
                  /\ UNCHANGED point_cloud
       ELSE /\ g_pc' = "rasterize"
            /\ UNCHANGED <<point_cloud, stage_log, g_exception>>
    /\ UNCHANGED <<filterVars, rasterVars, pixelVars, overlayVars, input_exists,
                   annotations_file, crop_bounds, use_connected_components,
                   remove_outliers, file_cloud, files_written, g_result>>

\* The call of create_density_image: `if remove_outliers:` the statistical
\* outlier removal, then the rasterizer on processed_cloud.
CallCreateDensityImage ==
    /\ g_pc = "rasterize"
    /\ r_pc = "idle"
    /\ IF remove_outliers
       THEN /\ r_cloud' \in SubClouds(point_cloud)
            /\ stage_log' = stage_log \o <<"outlier_removal", "rasterize">>
       ELSE /\ r_cloud' = point_cloud
            /\ stage_log' = Append(stage_log, "rasterize")
    /\ r_pc' = "start"
    /\ g_pc' = "rasterizing"
    /\ UNCHANGED <<filterVars, pixelVars, overlayVars, flip_y, resolution_arg,
                   resolution, width, height, projection_matrix, pixel_xy,
                   valid_mask, valid_pixels, acc_run, acc_in_run, density_image,
                   warnings, normVars, input_exists, annotations_file,
                   crop_bounds, use_connected_components, remove_outliers,
                   file_cloud, point_cloud, files_written, g_result,
                   g_exception>>

\* An exception of create_density_image leaves generate_from_ply:
\* ZeroDivisionError from the scale factor, ValueError from np.max.
RasterizerRaised ==
    /\ g_pc = "rasterizing"
    /\ r_pc = "raised"
    /\ g_exception' = IF projection_matrix = <<>> THEN "ZeroDivisionError"
                      ELSE "ValueError"
    /\ g_pc' = "raised"
    /\ UNCHANGED <<filterVars, rasterVars, pixelVars, overlayVars, input_exists,
                   annotations_file, crop_bounds, use_connected_components,
                   remove_outliers, file_cloud, point_cloud, stage_log,
                   files_written, g_result>>

\* density_image.save(density_output)
SaveDensity ==
    /\ g_pc = "rasterizing"
    /\ r_pc = "returned"
    /\ files_written' = Append(files_written,
                               [path |-> "density", mode |-> "L", marks |-> {}])
    /\ stage_log' = Append(stage_log, "save_density")
    /\ g_pc' = "saved"
    /\ UNCHANGED <<filterVars, rasterVars, pixelVars, overlayVars, input_exists,
                   annotations_file, crop_bounds, use_connected_components,
                   remove_outliers, file_cloud, point_cloud, g_result,
                   g_exception>>

\* density_image.copy(): a new image object with the same pixels.
OverlayArgument == [mode |-> "L", marks |-> {}, object |-> "copy"]

\* `if annotations_file and os.path.exists(annotations_file):` the overlay
\* on a copy of the density image, with the returned parameters;
\* otherwise `return density_output`.
AnnotateOrReturn ==
    /\ g_pc = "saved"
    /\ IF annotations_file = "present"
       THEN /\ o_pc' = "start"
            /\ o_params' = proj_params
            /\ o_image' = OverlayArgument
            /\ stage_log' = Append(stage_log, "overlay")
            /\ g_pc' = "overlaying"
            /\ UNCHANGED g_result
       ELSE /\ g_result' = "density"
            /\ g_pc' = "returned"
            /\ UNCHANGED <<o_pc, o_params, o_image, stage_log>>
    /\ UNCHANGED <<filterVars, rasterVars, pixelVars, annotations, o_width,
                   o_height, o_matrix, o_scene, o_error, scene_colors, input_exists,
                   annotations_file, crop_bounds, use_connected_components,
                   remove_outliers, file_cloud, point_cloud, files_written,
                   g_exception>>

\* annotated_image.save(annotated_output); return annotated_output
SaveAnnotated ==
    /\ g_pc = "overlaying"
    /\ o_pc = "returned"
    /\ files_written' = Append(files_written,
                               [path |-> "annotated", mode |-> o_image.mode,
                                marks |-> o_image.marks])
    /\ stage_log' = Append(stage_log, "save_annotated")
    /\ g_result' = "annotated"
    /\ g_pc' = "returned"
    /\ UNCHANGED <<filterVars, rasterVars, pixelVars, overlayVars, input_exists,
                   annotations_file, crop_bounds, use_connected_components,
                   remove_outliers, file_cloud, point_cloud, g_exception>>

NextRun ==
    \/ MakeOutputDir
    \/ CheckInput
    \/ LoadCloud
    \/ CropCloud
    \/ FilterComponents
    \/ CallCreateDensityImage
    \/ NextRaster
    \/ RasterizerRaised
    \/ SaveDensity
    \/ AnnotateOrReturn
    \/ NextOverlay
    \/ SaveAnnotated

SpecRun == InitRun /\ [][NextRun]_vars

(* ================== generate_from_ply: claims ========================= *)
\* The stage s was executed.
Executed(s) == \E k \in DOMAIN stage_log : stage_log[k] = s

\* The image written at path p, if any.
Written(p) == \E k \in DOMAIN files_written : files_written[k].path = p

\* C17: when the input file does not exist, generate_from_ply fails with
\* FileNotFoundError before the cloud is loaded, cropped, filtered or
\* rasterized, and no density or annotated image is written.
C17_MissingInputIsFatal ==
    (~input_exists /\ g_pc \notin {"idle", "start", "check"}) =>
        /\ g_pc = "raised"
        /\ g_exception = "FileNotFoundError"
        /\ ~Executed("load") /\ ~Executed("crop")
        /\ ~Executed("component_filter") /\ ~Executed("rasterize")
        /\ point_cloud = <<>>
        /\ r_pc = "idle"
        /\ o_pc = "idle"
        /\ files_written = <<>>
        /\ g_result = "none"

\* The run of a missing file has failed, with every option switched on.
C17_Witness ==
    /\ ~input_exists
    /\ g_pc = "raised"
    /\ g_exception = "FileNotFoundError"
    /\ file_cloud # <<>>
    /\ crop_bounds # <<>>
    /\ use_connected_components
    /\ remove_outliers
    /\ annotations_file = "present"

\* generate_from_ply is over: it returned or an exception left it.
RunOver == g_pc \in {"returned", "raised"}

\* C12: every run whose input file exists completes without raising and
\* writes a density image, whatever the cloud is after crop and filter
\* (no points, no extent in x or y, oversized) and whatever the
\* annotations file holds.
C12_OnlyMissingInputIsFatal ==
    (input_exists /\ RunOver) =>
        /\ g_pc = "returned"
        /\ g_exception = "none"
        /\ Written("density")

\* The run completes and writes the density image whenever
\* create_density_image returns: a malformed annotations file, an
\* oversized image and an image no point landed in do not stop it.
CompletesWhenRasterized ==
    (input_exists /\ RunOver /\ r_pc = "returned") =>
        /\ g_pc = "returned"
        /\ g_exception = "none"
        /\ Written("density")

CompletesWhenRasterizedReached ==
    /\ g_pc = "returned"
    /\ Written("density")
    /\ o_error # "none"
    /\ resolution # resolution_arg

\* Position of the stage s in the log, 0 when it was not executed.
StagePosition(s) ==
    IF Executed(s) THEN CHOOSE k \in DOMAIN stage_log : stage_log[k] = s ELSE 0

\* C18: every run that reaches rasterization writes the grayscale density
\* image, and writes it before the overlay starts; whenever an annotations
\* path is supplied the run also writes an RGB annotated image and returns
\* its path.
C18_OutputsWritten ==
    /\ (RunOver /\ Executed("rasterize")) =>
          \E k \in DOMAIN files_written :
              files_written[k] = [path |-> "density", mode |-> "L", marks |-> {}]
    /\ Executed("overlay") =>
          /\ Executed("save_density")
          /\ StagePosition("save_density") < StagePosition("overlay")
    /\ (RunOver /\ Executed("rasterize") /\ annotations_file # "none") =>
          /\ \E k \in DOMAIN files_written :
                /\ files_written[k].path = "annotated"
                /\ files_written[k].mode = "RGB"
          /\ g_result = "annotated"

\* What the code does do: the density image is saved before the overlay
\* starts, a run that returns has written it, and a run that returns
\* with an annotations file that exists has written an annotated image
\* after it and returns that path.
DensitySavedFirst ==
    /\ (o_pc # "idle" \/ Written("annotated")) =>
          /\ Len(files_written) >= 1
          /\ files_written[1] = [path |-> "density", mode |-> "L", marks |-> {}]
          /\ StagePosition("save_density") < StagePosition("overlay")
    /\ g_pc = "returned" =>
          /\ files_written[1] = [path |-> "density", mode |-> "L", marks |-> {}]
          /\ IF annotations_file = "present"
             THEN /\ Len(files_written) = 2
                  /\ files_written[2].path = "annotated"
                  /\ g_result = "annotated"
             ELSE /\ Len(files_written) = 1
                  /\ g_result = "density"

DensitySavedFirstReached ==
    /\ g_pc = "returned"
    /\ g_result = "annotated"
    /\ files_written[2].mode = "RGB"
    /\ files_written[2].marks # {}

\* An annotated image that is not RGB: the annotations file has no
\* 'section_details'.
GrayAnnotatedReached ==
    /\ g_pc = "returned"
    /\ g_result = "annotated"
    /\ files_written[2].mode = "L"

\* C19: with crop, outlier removal and component filter all enabled, the
\* stages run in the order crop, outlier removal, component filter,
\* rasterization, overlay: the filter is given a cloud the outliers were
\* already removed from.
C19_StageOrder ==
    (/\ crop_bounds # <<>> /\ remove_outliers /\ use_connected_components
     /\ Executed("rasterize")) =>
        /\ StagePosition("crop") < StagePosition("outlier_removal")
        /\ StagePosition("outlier_removal") < StagePosition("component_filter")
        /\ StagePosition("component_filter") < StagePosition("rasterize")
        /\ Executed("overlay") => StagePosition("rasterize") < StagePosition("overlay")

\* The order of the code: crop, component filter, outlier removal (inside
\* create_density_image), rasterization, overlay.
StagesInCodeOrder ==
    (/\ crop_bounds # <<>> /\ remove_outliers /\ use_connected_components
     /\ Executed("rasterize")) =>
        /\ StagePosition("load") < StagePosition("crop")
        /\ StagePosition("crop") < StagePosition("component_filter")
        /\ StagePosition("component_filter") < StagePosition("outlier_removal")
        /\ StagePosition("outlier_removal") < StagePosition("rasterize")
        /\ Executed("overlay") => StagePosition("rasterize") < StagePosition("overlay")

StagesInCodeOrderReached ==
    /\ crop_bounds # <<>> /\ remove_outliers /\ use_connected_components
    /\ Executed("overlay")
    /\ g_pc = "returned"

\* draw_scene_outlines has read its projection parameters.
ParamsRead == g_pc # "idle" /\ o_pc \in {"loop", "returned"} /\ o_matrix # <<>>

\* C15: in every run with annotations, the width, height and projection
\* matrix draw_scene_outlines uses are the ones create_density_image
\* projected the points with, also after the downscale changed them.
C15_OverlayUsesRasterProjection ==
    ParamsRead =>
        /\ o_width = width
        /\ o_height = height
        /\ o_matrix = projection_matrix
        /\ \A k \in DOMAIN r_cloud :
              pixel_xy[k] = <<PixelX(o_matrix, r_cloud[k].x, o_width),
                              PixelY(o_matrix, r_cloud[k].y, flip_y, o_height)>>

\* A scene was drawn with the parameters of a downscaled image.
C15_Witness ==
    /\ ParamsRead
    /\ Oversized
    /\ resolution # resolution_arg
    /\ o_height # InputHeight
    /\ o_height = height
    /\ o_image.marks # {}

(* ==================== scene colours: claims =========================== *)
\* The hue the layer of a scene was painted with; the set is a singleton
\* for a painted layer.
PaintedHues(i, layer) == {m[3] : m \in {n \in o_image.marks : n[1] = i /\ n[2] = layer}}

\* C21: with N >= 1 polygons the polygon at position i (from 0) gets the
\* hue i/N: the first hue is 0, each next one is 1/N further round the
\* hue circle, the N hues are pairwise distinct, and every polygon drawn
\* is drawn in the hue of its position.
C21_HuesEvenlySpaced ==
    (o_pc \in {"loop", "returned"} /\ annotations.layout = "complete"
        /\ Len(annotations.scenes) >= 1) =>
        LET N == Len(annotations.scenes)
        IN  /\ Len(scene_colors) = N
            /\ scene_colors[1] = <<0, 1>>
            /\ \A i \in 1..(N - 1) :
                  scene_colors[i + 1] = RatAdd(scene_colors[i], <<1, N>>)
            /\ \A i, j \in 1..N : i # j => scene_colors[i] # scene_colors[j]
            /\ \A i \in 1..N : scene_colors[i][1] < scene_colors[i][2]
            /\ \A i \in 1..N : \A layer \in {"fill", "outline", "label_text"} :
                  PaintedHues(i, layer) \subseteq {scene_colors[i]}

\* Three polygons drawn, in the hues 0, 1/3 and 2/3.
C21_Witness ==
    /\ o_pc = "returned"
    /\ Len(annotations.scenes) = 3
    /\ PaintedHues(1, "outline") = {<<0, 1>>}
    /\ PaintedHues(2, "outline") = {<<1, 3>>}
    /\ PaintedHues(3, "label_text") = {<<2, 3>>}

(* ================== the unit square at resolution 10 ================== *)
\* The four corners of the unit square, z = 0.
UnitSquare == {[x |-> a, y |-> b, n |-> 1] : a, b \in {0, 1}}

\* create_density_image(cloud, resolution=10) on the four corners in any
\* order, with flip_y at its default and switched off.
InitUnitSquare ==
    /\ FilterIdle
    /\ r_cloud \in {c \in [1..4 -> UnitSquare] : Range(c) = UnitSquare}
    /\ resolution_arg = <<10, 1>>
    /\ flip_y \in BOOLEAN
    /\ RasterEntry
    /\ RestIdle

SpecUnitSquare == InitUnitSquare /\ [][NextRaster]_vars

\* The pixels of the count grid with a count above zero.
NonzeroPixels == {p \in DOMAIN density_image : density_image[p] > 0}

\* C22: for the cloud (0,0,0), (1,0,0), (0,1,0), (1,1,0) at resolution 10
\* (flip_y at its default, True) the bounding box is (0,0)-(1,1), the
\* image is 10 x 10 = ceil(size * resolution), the count grid has exactly
\* 4 nonzero pixels, each with count 1, and every zero-count pixel is
\* normalized to 255.
C22_UnitSquareExample ==
    (flip_y /\ Range(r_cloud) = UnitSquare /\ resolution_arg = <<10, 1>>) =>
        /\ r_pc # "raised"
        /\ r_pc # "start" =>
              /\ MinBoundX(r_cloud) = 0 /\ MinBoundY(r_cloud) = 0
              /\ MaxBoundX(r_cloud) = 1 /\ MaxBoundY(r_cloud) = 1
              /\ width = 10 /\ height = 10
              /\ width = CalculatedDimension(0, 1, resolution_arg)
        /\ r_pc \in {"accumulated", "returned"} =>
              /\ Cardinality(NonzeroPixels) = 4
              /\ \A p \in NonzeroPixels : density_image[p] = 1
              /\ NonzeroPixels = {<<0, 0>>, <<0, 9>>, <<9, 0>>, <<9, 9>>}
        /\ r_pc = "returned" =>
              /\ normalized.rest = 255
              /\ \A p \in DOMAIN normalized.hit :
                    density_image[p] = 0 => normalized.hit[p] = 255

\* The example has been rasterized and returned.
C22_Witness ==
    /\ flip_y
    /\ Range(r_cloud) = UnitSquare
    /\ resolution_arg = <<10, 1>>
    /\ r_pc = "returned"
    /\ Cardinality(NonzeroPixels) = 4
    /\ normalized.rest = 255

\* Without the flip only the two corners with y = 0 land inside the image.
UnflippedSquareReached ==
    /\ ~flip_y
    /\ Range(r_cloud) = UnitSquare
    /\ r_pc = "returned"
    /\ NonzeroPixels = {<<0, 0>>, <<9, 0>>}

(* ================= the stages and their inputs ======================== *)
\* The component filter on a cloud with or without colours and normals,
\* or a run of generate_from_ply.
InitStages == InitAttributes \/ InitRun

NextStages == Next \/ NextRun

SpecStages == InitStages /\ [][NextStages]_vars

\* What has been painted on the density image object itself.
DensityImageMarks ==
    IF o_image.object = "density_image" THEN o_image.marks ELSE {}

\* C23: no stage modifies its input.  The component filter leaves the
\* points, colours and normals of its input cloud as they were;
\* create_density_image leaves the coordinates of its cloud as they were,
\* the flip acting on a copy; the overlay of generate_from_ply leaves the
\* density image as it was, drawing on another image object.
C23_StagesLeaveInputsUnchanged ==
    [][/\ pc # "idle" => /\ cloud' = cloud
                         /\ colors' = colors
                         /\ normals' = normals
       /\ r_pc # "idle" => r_cloud' = r_cloud
       /\ g_pc' \in {"overlaying", "returned"} =>
             /\ enhanced_image' = enhanced_image
             /\ DensityImageMarks' = {}
             /\ files_written'[1] = [path |-> "density", mode |-> "L", marks |-> {}]
      ]_vars

\* A run with the flip on a cloud with a point off the x axis, in which the
\* overlay has painted a scene.
C23_Witness ==
    /\ g_pc = "returned"
    /\ flip_y
    /\ \E k \in DOMAIN r_cloud : r_cloud[k].y # 0
    /\ o_image.marks # {}
    /\ o_image.object = "converted"

\* The filter has returned a part of a cloud with colours and normals.
FilteredWithAttributesReached ==
    /\ pc = "done"
    /\ colors # <<>> /\ normals # <<>>
    /\ Len(filtered_cloud) < NumPoints(cloud)
    /\ Len(filtered_cloud) > 0

(* ================== find_triplets: the edge buffers =================== *)
\* The capacity of the edge buffers.
Capacity == NumPoints(triplets_i)

\* C24: for every cloud of at least one point and every max_nn >= 1, each
\* write of an edge at current_idx lands inside both buffers, also at
\* point 0 and when the initial capacity is small.
C24_WritesInsideCapacity ==
    (NumPoints(graph_cloud) >= 1 /\ max_nn >= 1) =>
        /\ exception # "IndexError"
        /\ current_idx <= Capacity
        /\ current_idx <= NumPoints(triplets_j)

\* From five points on the initial capacity is at least max_nn, and every
\* write fits.
WritesFitFromFivePoints ==
    (NumPoints(graph_cloud) >= 5 /\ max_nn >= 1) => exception # "IndexError"

WritesFitReached ==
    /\ NumPoints(graph_cloud) >= 5
    /\ max_nn = 2
    /\ pc = "clique"
    /\ current_idx >= 6

\* C25: whenever the edge buffers grow, the new capacity is exactly twice
\* the old one, both buffers grow together, a processed point grows them
\* at most once, and the edges already written keep their values and
\* positions.
C25_BuffersDouble ==
    [][/\ NumPoints(triplets_j) = Capacity => NumPoints(triplets_j') = Capacity'
       /\ Capacity' \in {Capacity, 2 * Capacity}
       /\ Capacity' # Capacity =>
             /\ last_resize' = loop_i
             /\ last_resize # loop_i
       /\ pc = "triplets" =>
             \A k \in 0..(current_idx - 1) :
                 /\ k < Capacity' => /\ triplets_i'[k] = triplets_i[k]
                                     /\ triplets_j'[k] = triplets_j[k]
                 /\ k < Capacity'
      ]_vars

\* The buffers have grown at a point after point 0, which had written
\* an edge before.
C25_Witness ==
    /\ last_resize >= 1
    /\ Capacity >= 2 * EstimatedCapacity(NumPoints(graph_cloud), max_nn)
    /\ Capacity >= 2
    /\ current_idx >= 2
    /\ triplets_i[0] = 0
    /\ triplets_j[0] > 0
    /\ NumPoints(triplets_j) = Capacity

(* ============== graph strategy: components and failures =============== *)
\* The graph strategy has labelled the points.
GraphLabelled == graph_ran /\ pc \in {"graph_select", "done"}

\* a and b are joined by a path of at most steps edges of the combined
\* list, each edge taken in either direction.
RECURSIVE PathWithin(_, _, _)
PathWithin(a, b, steps) ==
    \/ a = b
    \/ /\ steps > 0
       /\ \E e \in Range(all_triplets) :
             \/ e[1] = a /\ PathWithin(e[2], b, steps - 1)
             \/ e[2] = a /\ PathWithin(e[1], b, steps - 1)

\* C26: in the graph strategy every point gets exactly one component id in
\* 0..k-1, every id of the range is used, and two points have the same id
\* if and only if a path of edges of the combined list, taken as
\* undirected, joins them.
C26_ComponentsAreReachabilityClasses ==
    GraphLabelled =>
        LET N == DOMAIN graph_cloud
            ids == {components[a] : a \in N}
        IN  /\ DOMAIN components = N
            /\ ids = 0..(Cardinality(ids) - 1)
            /\ \A a, b \in N :
                  components[a] = components[b] <=> PathWithin(a, b, NumPoints(graph_cloud) - 1)

\* Two components, one of them with two points or more.
C26_Witness ==
    /\ GraphLabelled
    /\ pc = "done"
    /\ \E a, b, c \in DOMAIN graph_cloud :
          /\ a # b
          /\ components[a] = components[b]
          /\ components[c] # components[a]

(* ============== density clustering: the noise label =================== *)
\* Some cluster holds a point within always_include_radius of a scan origin.
SomeClusterNear == \E m \in InputIncluded : labels[m] >= 0

GraphOver == graph_ran /\ pc \in {"done", "raised"}

\* C28: for every cloud of at least one point and every
\* max_num_nearby_points >= 0, filter_using_graph builds the combined edge
\* list and the graph and returns a filtered cloud without raising.
C28_GraphStrategyReturns ==
    (GraphOver /\ NumPoints(graph_cloud) >= 1 /\ max_num_nearby_points >= 0) =>
        /\ pc = "done"
        /\ exception = "none"
        /\ returned_by = "graph"

\* With two anchors or more the clique list is not empty and the
\* strategy returns, unless find_triplets wrote past its buffers.
ReturnsWithTwoAnchors ==
    (/\ GraphOver
     /\ NumNearbyPoints(max_num_nearby_points, NumPoints(graph_cloud)) >= 2
     /\ exception # "IndexError") =>
        /\ pc = "done"
        /\ exception = "none"
        /\ returned_by = "graph"

\* One point, or fewer than two anchors asked for: np.concatenate raises.
EmptyCliqueRaises ==
    (/\ GraphOver
     /\ NumNearbyPoints(max_num_nearby_points, NumPoints(graph_cloud)) < 2
     /\ exception # "IndexError") =>
        /\ pc = "raised"
        /\ exception = "ValueError"

EmptyCliqueReached ==
    /\ GraphOver
    /\ NumPoints(graph_cloud) = 1
    /\ max_num_nearby_points = 3
    /\ exception = "ValueError"

(* ------------------ the image dimensions: at least one ---------------- *)
\* The cloud extends in x and in y, and the resolution is positive.
PositiveExtent ==
    /\ MaxBoundX(r_cloud) > MinBoundX(r_cloud)
    /\ MaxBoundY(r_cloud) > MinBoundY(r_cloud)
    /\ resolution_arg[1] > 0

\* C29: for every cloud with positive extent in x and in y and every
\* resolution > 0, the width and height the projection matrix and the count
\* grid are built from are both at least 1, also after the downscale of a
\* very elongated cloud, so the matrix never divides by zero.
C29_DimensionsAtLeastOne ==
    (MatrixBuilt /\ PositiveExtent) =>
        /\ width >= 1
        /\ height >= 1
        /\ projection_matrix.m00[2] # 0
        /\ projection_matrix.m11[2] # 0

\* Without the downscale the rounded-up dimensions are at least 1.
DimensionsAtLeastOneUnscaled ==
    (MatrixBuilt /\ PositiveExtent /\ ~Oversized) => (width >= 1 /\ height >= 1)

\* A cloud one unit wide and 10001 units long at resolution 1: the scaled
\* width is int(0.9999) = 0.
ElongatedCloudZeroWidth ==
    /\ MatrixBuilt
    /\ PositiveExtent
    /\ InputWidth = 1
    /\ InputHeight = MaxDimension + 1
    /\ width = 0
    /\ height = MaxDimension

(* ------------- graph strategy: neighbours within the radius ----------- *)
\* Clouds on a line with three positions, so that two neighbours of a point
\* need not be neighbours of each other; max_nn below the number of
\* neighbours a point can have; two anchors.
MaxLinePoints == 5
LineCoords == {0, 1, 2}
LineNNs == {2}

InitNeighbours ==
    /\ \E n \in 0..MaxLinePoints : cloud \in [0..(n - 1) -> LineCoords]
    /\ scan_origins = <<0>>
    /\ radius = 2
    /\ max_nn \in LineNNs
    /\ max_num_nearby_points = 2
    /\ always_include_radius = 1
    /\ AttributesAbsent
    /\ FilterEntry
    /\ RasterIdle
    /\ RestIdle

SpecNeighbours == InitNeighbours /\ [][Next]_vars

\* idx of the radius search around point i, restricted to j > i
HigherNeighbours(i) == {j \in SearchRadius(graph_cloud, i, radius) : j > i}

\* No point has more than max_nn higher-indexed neighbours.
NeighboursWithinMaxNN ==
    \A i \in DOMAIN graph_cloud : Cardinality(HigherNeighbours(i)) <= max_nn

\* C30: graph strategy: if every point has at most max_nn higher-indexed
\* neighbours within the radius, any two points within the radius of each
\* other receive the same component label.
C30_NeighboursShareLabel ==
    (GraphLabelled /\ NeighboursWithinMaxNN) =>
        \A a, b \in DOMAIN graph_cloud :
            Distance(graph_cloud[a], graph_cloud[b]) < radius =>
                components[a] = components[b]

\* Five points, none with more than max_nn higher neighbours; a point with
\* two neighbours that are not neighbours of each other, of which it and
\* one neighbour are not anchors.
C30_Witness ==
    /\ GraphLabelled
    /\ NeighboursWithinMaxNN
    /\ NumPoints(graph_cloud) = MaxLinePoints
    /\ \E a, b, c \in DOMAIN graph_cloud :
           /\ a < b /\ a < c
           /\ Distance(graph_cloud[a], graph_cloud[b]) < radius
           /\ Distance(graph_cloud[a], graph_cloud[c]) < radius
           /\ ~(Distance(graph_cloud[b], graph_cloud[c]) < radius)
           /\ {a, c} \cap {sorted_point_indices[k] : k \in 0..(max_num_nearby_points - 1)} = {}
           /\ components[a] = components[b]
           /\ components[a] = components[c]

\* With more than max_nn higher neighbours the loop breaks early and two
\* points within the radius can end in different components.
TruncatedNeighboursSplit ==
    /\ GraphLabelled
    /\ ~NeighboursWithinMaxNN
    /\ \E a, b \in DOMAIN graph_cloud :
           /\ Distance(graph_cloud[a], graph_cloud[b]) < radius
           /\ components[a] # components[b]
====
